---- MODULE Spec2Model ----
(***************************************************************************)
(* Model of the movies-tv scraper's orchestrator (src/main.ts) and of the  *)
(* parts of the scraper (src/Scraper/nunflix-puppeteer.ts) and exporter    *)
(* (src/export.ts) it drives.                                              *)
(*                                                                         *)
(* The program is a single-threaded event loop.  Every action below is one *)
(* macrotask: the completion of an awaited I/O operation or the firing of  *)
(* a timer, together with the synchronous continuation (and the promise    *)
(* reactions) that run before the next macrotask.                          *)
(***************************************************************************)
EXTENDS Integers, Sequences, FiniteSets, TLC

(* ------------------------------------------------------------------ *)
(* Bounds of the explored environment                                  *)
(* ------------------------------------------------------------------ *)
\* Spec explores the whole run over a prefix of the predefined genres:
\* how many genres, how many cards the listing site serves during the run
\* (over all categories), and how many failures of the environment happen (a
\* timer of withTimeout that fires first, a launch or a close or a file write
\* that throws, a session that crashes)
NumGenres == 4
MaxMovies == 1
MaxFaults == 1
\* SpecCategory explores the trending category and one genre in depth
CategoryMovies == 3
CategoryFaults == 1
\* SpecRefresh explores a long listing on a site where every card resolves:
\* the listing that is discovered first shows all the cards
RefreshMovies == 11
RefreshFaults == 1
\* SpecResolver explores one call of resolveM3U8FromEmbed: how many requests
\* the embed page issues while it is open
MaxRequests == 2
\* SpecTitle explores cleanMovieTitle on raw titles of up to MaxPieces pieces
MaxPieces == 3
\* SpecSelect explores processMovie on watch pages of up to MaxCandidates embed links
MaxCandidates == 2
\* SpecExport explores generateM3UContent on lists of up to MaxEntries entries
MaxEntries == 3
\* SpecOrder explores a run over OrderGenres genres of one chunk on a site of
\* OrderMovies cards, with up to OrderFaults injected failures
OrderGenres == 2
OrderMovies == 3
OrderFaults == 1
\* SpecDiscover explores one discovery call on pages that open with up to
\* MaxLeading item nodes without a parseable id, followed by up to MaxTail
\* further nodes, for limits up to MaxLimit
MaxLeading == 11
MaxTail == 2
MaxLimit == 2

(* ------------------------------------------------------------------ *)
(* Program constants                                                   *)
(* ------------------------------------------------------------------ *)
TRENDING_MOVIES == 25
GENRE_MOVIES == 20
PARALLEL_GENRES == 3
BROWSER_REFRESH_INTERVAL == 10
\* the default of the retrying resolveM3U8FromEmbed's third parameter
maxAttempts == 2
\* extractMovies examines at most limit + 10 cards
ExtraCards == 10

Trending == "Trending Movies"

AllGenres ==
  << "Action", "Adventure", "Animation", "Comedy", "Crime", "Drama", "Family",
     "Fantasy", "History", "Horror", "Music", "Mystery", "Romance",
     "Science Fiction", "Thriller", "War", "Western" >>

Min(a, b) == IF a < b THEN a ELSE b

\* getAvailableGenres() returns the predefined list; a run explored here works
\* through a prefix of it, or through the one genre "Horror"
GenrePrefix == SubSeq(AllGenres, 1, Min(NumGenres, Len(AllGenres)))
OneGenre == << "Horror" >>

Range(f) == { f[k] : k \in DOMAIN f }
Cats == {Trending} \cup Range(GenrePrefix) \cup Range(OneGenre)

NULL == "null"

\* iframe sources a watch page can carry
VidFastLink == "https://vidfast.pro/movie/1"
VidFastMirror == "https://vidfast.net/movie/1"
OtherLink == "https://embed.su/embed/movie/1"
\* link.includes('vidfast')
IncludesVidfast(link) == link \in {VidFastLink, VidFastMirror}

\* what getStreamLinksFromWatchPage can return: the iframe links in document
\* order, the empty list also on any error it catches
EmbedLists == { <<>>, <<OtherLink>>, <<VidFastLink>>, <<OtherLink, VidFastLink>> }

\* request URLs containing '.m3u8' that resolveM3U8FromEmbed can capture, and
\* the one the player of the k-th card of a listing requests
ManifestUrls ==
  << "https://cdn.example/a.m3u8", "https://cdn.example/b.m3u8",
     "https://cdn.example/c.m3u8" >>
ManifestUrl(k) == ManifestUrls[((k - 1) % Len(ManifestUrls)) + 1]

\* fetchTMDBInfo(cleanTitle): a first search result, or null
TmdbResults == { "found", NULL }

\* titles are opaque here: the raw title of the k-th card of a listing, and
\* the title the metadata lookup returns for it
RawTitle(k) == <<"card", k>>
TmdbTitle(k) == <<"tmdb", k>>

VARIABLES
  genres,        \* the list getAvailableGenres() returns in this run
  limits,        \* the run's environment: how many cards and failures, which
                 \* listing sizes, embed lists, resolutions and lookups
  mainPc,        \* main(): "init", "await" (Promise.all), "exit" (process.exit)
  exitCode,      \* NULL, or the argument of process.exit
  outcome,       \* which branch main() took: "none", "exported", "exportFailed", "noop", "caught"
  file,          \* <<>>, or << the list handed to exportToM3U and written >>
  agPc,          \* processAllGenres(): "idle", "awaitChunk" (Promise.allSettled), "delay", "done"
  chunk,         \* index (from 1) of the chunk in flight
  allGenreItems, \* processAllGenres' accumulated list
  pc,            \* per category: position of processGenre / processTrendingMovies
  sess,          \* per category: status of every session it launched, in launch order
  movies,        \* per category: number of items its discovery returned
  idx,           \* per category: loop index i (from 0)
  items,         \* per category: accumulated entries
  pending,       \* per category: an exception is propagating through the finally block
  ops,           \* running discovery / processMovie operations (also abandoned ones)
  noProvider,    \* history: <<cat, item>> whose extraction returned no VidFast link
  resolved,      \* history: <<cat, item, url>> returned by a stream resolution
  timedOut,      \* history: <<cat, item>> whose withTimeout timer fired first (item 0: discovery)
  lateFailures,  \* history: <<cat, item>> of abandoned operations that failed on a
                 \* session that was closed or had crashed
  unhandled,     \* a promise rejected with no handler attached
  launchFailures,\* history, per category: createBrowser() calls that threw
  launchedAt,    \* history, per category and session: the loop index i at its launch
  refreshed,     \* history, per category: <<>>, or << items when its last refresh began >>
  served,        \* cards served so far
  faults         \* environment failures so far

mainVars == << genres, limits, mainPc, exitCode, outcome, file, agPc, chunk, allGenreItems, pc, sess, movies,
           idx, items, pending, ops, noProvider, resolved, timedOut,
           lateFailures, unhandled, launchFailures, launchedAt, refreshed,
           served, faults >>

\* one call of resolveM3U8FromEmbed(browser, embedUrl), step by step
VARIABLES
  resolvePc,     \* "idle", the await it is at, "returned" or "thrown"
  resolveBrowser,\* the session it was given: "open" or "crashed"
  handler,       \* handleRequest is attached to the page (page.on / page.off)
  m3u8Url,       \* its local variable: NULL or the captured URL
  resolveResult, \* NULL, or the value it returned
  resolveSteps,  \* awaits completed so far
  requests,      \* requests the page has issued so far
  matched,       \* history: the URLs of the requests the handler matched, in order
  navFailed,     \* history: page.goto threw
  clickFailed    \* history: page.mouse.click threw

resolverVars == << resolvePc, resolveBrowser, handler, m3u8Url, resolveResult,
                   resolveSteps, requests, matched, navFailed, clickFailed >>

\* one call of the retrying resolveM3U8FromEmbed(browser, embedUrl, maxAttempts)
VARIABLES
  retryPc,       \* "idle", the await it is at, "returned" or "thrown"
  retryBrowser,  \* the session it was given: "open" or "crashed"
  attempt,       \* its loop counter
  retryUrl,      \* m3u8Url of the current attempt: NULL or the captured URL
  retryListening,\* handleRequest of the current attempt is attached
  retryResult,   \* NULL, or the value it returned
  attemptLog     \* history: per attempt started, the URL it held when it ended

retryVars == << retryPc, retryBrowser, attempt, retryUrl, retryListening, retryResult,
                attemptLog >>

\* one call of a pure function on inputs drawn at the start
VARIABLES
  callPc,        \* "idle", or the position of the call
  titlePieces,   \* cleanMovieTitle: the pieces the raw title is made of
  cleanTitle,    \* cleanMovieTitle(rawTitle)
  cleanedAgain,  \* cleanMovieTitle(cleanTitle)
  candidates,    \* processMovie: the embed links of the watch page
  resolves,      \* the embed links whose page reveals a stream
  tmdbResult,    \* what fetchTMDBInfo returns for the item
  selected,      \* what processMovie returned: <<>> for null, else << item >>
  exportItems,   \* exportToM3U: the accumulated list
  arrival,       \* the same entries accumulated in another order
  content,       \* generateM3UContent(exportItems)
  arrivalContent,\* generateM3UContent(arrival)
  parsed         \* the entries read back from content

titleVars == << titlePieces, cleanTitle, cleanedAgain >>
selectVars == << candidates, resolves, tmdbResult, selected >>
exportVars == << exportItems, arrival, content, arrivalContent, parsed >>

\* one call of getTrendingMoviesPuppeteer(browser, genre, limit), step by step
VARIABLES
  discoverPc,     \* "idle", the await it is at, "returned" or "thrown"
  discoverBrowser,\* the session it was given: "open" or "crashed"
  markup,         \* the page: the selector its item nodes answer to, or "none"
  cardNodes,      \* the page: per item node, the id in its link, or NULL
  limit,          \* the parameter
  cards,          \* extractMovies: its local `cards`
  cardIndex,      \* extractMovies: the loop index i
  collected,        \* extractMovies: its local `movies`, as the ids pushed
  discoverResult  \* NULL, or the ids of the list it returned

discoverVars == << discoverPc, discoverBrowser, markup, cardNodes, limit, cards,
                   cardIndex, collected, discoverResult >>

\* one call of getM3U8FromVidFast(browser, tmdbId), step by step
VARIABLES
  vidfastPc,      \* "idle", the await it is at, or "returned"
  playControls,   \* the page: the play-control selectors that match a node
  videoElement,   \* the page: it has a video element
  selectorIndex,  \* the index into playSelectors of the inner loop
  clicks,         \* history: the clicks performed, in order
  vidfastUrl,     \* its local m3u8Url
  vidfastResult   \* NULL before it returns, then << the value returned >>

vidfastVars == << vidfastPc, playControls, videoElement, selectorIndex, clicks,
                  vidfastUrl, vidfastResult >>

scraperVars == << discoverVars, vidfastVars >>

harnessVars == << retryVars, callPc, titleVars, selectVars, exportVars, scraperVars >>

vars == << mainVars, resolverVars, harnessVars >>

(* ------------------------------------------------------------------ *)
(* Helpers                                                             *)
(* ------------------------------------------------------------------ *)
\* the session a category's `browser` variable refers to: the last one launched
Browser(c) == Len(sess[c])

SessionUsable(c, s) == s >= 1 /\ s <= Len(sess[c]) /\ sess[c][s] = "open"

CanFault == faults < limits.faults

\* genreChunks: slices of PARALLEL_GENRES genres
\* (mutant: the genre list is not sliced)
ChunkOfAll(k) == IF k = 1 THEN genres ELSE <<>>
NumChunks == (Len(genres) + PARALLEL_GENRES - 1) \div PARALLEL_GENRES
ChunkOf(k) ==
  SubSeq(genres, (k - 1) * PARALLEL_GENRES + 1,
         Min(k * PARALLEL_GENRES, Len(genres)))
\* (mutant: a chunk also takes the genre after its last)
ChunkSetOverlapping(k) ==
  { genres[j] : j \in ((k - 1) * PARALLEL_GENRES + 1)..Min(k * PARALLEL_GENRES + 1, Len(genres)) }
ChunkSet(k) == { ChunkOf(k)[j] : j \in 1..Len(ChunkOf(k)) }

Limit(c) == IF c = Trending THEN TRENDING_MOVIES ELSE GENRE_MOVIES

DiscoveryOp(c, s) ==
  [kind |-> "discover", cat |-> c, item |-> 0, s |-> s, stage |-> "newPage",
   val |-> NULL, firedAt |-> NULL]

MovieOp(c, k, s) ==
  [kind |-> "movie", cat |-> c, item |-> k, s |-> s, stage |-> "extract",
   val |-> NULL, firedAt |-> NULL]

\* the timer of the withTimeout around o fired first (at stage o.firedAt)
Abandoned(o) == o.firedAt # NULL

Foreground(c) == { o \in ops : o.cat = c /\ ~Abandoned(o) }

\* no call of the resolver is being followed
ResolverIdle ==
  /\ resolvePc = "idle"
  /\ resolveBrowser = "open"
  /\ handler = FALSE
  /\ m3u8Url = NULL
  /\ resolveResult = NULL
  /\ resolveSteps = 0
  /\ requests = 0
  /\ matched = <<>>
  /\ navFailed = FALSE
  /\ clickFailed = FALSE

\* no call of the retrying resolver is being followed
RetryIdle ==
  /\ retryPc = "idle"
  /\ retryBrowser = "open"
  /\ attempt = 0
  /\ retryUrl = NULL
  /\ retryListening = FALSE
  /\ retryResult = NULL
  /\ attemptLog = <<>>

TitleIdle == titlePieces = <<>> /\ cleanTitle = NULL /\ cleanedAgain = NULL
SelectIdle == candidates = <<>> /\ resolves = {} /\ tmdbResult = NULL /\ selected = <<>>
ExportIdle ==
  /\ exportItems = <<>>
  /\ arrival = <<>>
  /\ content = NULL
  /\ arrivalContent = NULL
  /\ parsed = NULL

\* no call of discovery or of the VidFast scraper is being followed
DiscoverIdle ==
  /\ discoverPc = "idle"
  /\ discoverBrowser = "open"
  /\ markup = "none"
  /\ cardNodes = <<>>
  /\ limit = 0
  /\ cards = <<>>
  /\ cardIndex = 0
  /\ collected = <<>>
  /\ discoverResult = NULL

VidfastIdle ==
  /\ vidfastPc = "idle"
  /\ playControls = {}
  /\ videoElement = FALSE
  /\ selectorIndex = 0
  /\ clicks = <<>>
  /\ vidfastUrl = NULL
  /\ vidfastResult = NULL

ScraperIdle == DiscoverIdle /\ VidfastIdle

\* no harness is engaged
HarnessIdle ==
  RetryIdle /\ callPc = "idle" /\ TitleIdle /\ SelectIdle /\ ExportIdle /\ ScraperIdle

MainStartState ==
  /\ mainPc = "init"
  /\ exitCode = NULL
  /\ outcome = "none"
  /\ file = <<>>
  /\ agPc = "idle"
  /\ chunk = 0
  /\ allGenreItems = <<>>
  /\ pc = [c \in Cats |-> "idle"]
  /\ sess = [c \in Cats |-> <<>>]
  /\ movies = [c \in Cats |-> 0]
  /\ idx = [c \in Cats |-> 0]
  /\ items = [c \in Cats |-> <<>>]
  /\ pending = [c \in Cats |-> FALSE]
  /\ ops = {}
  /\ noProvider = {}
  /\ resolved = {}
  /\ timedOut = {}
  /\ lateFailures = {}
  /\ unhandled = FALSE
  /\ launchFailures = [c \in Cats |-> 0]
  /\ launchedAt = [c \in Cats |-> <<>>]
  /\ refreshed = [c \in Cats |-> <<>>]
  /\ served = 0
  /\ faults = 0

\* an environment that serves up to m cards and fails up to f times: a listing
\* shows any number of cards, a watch page any embed list, a resolution and
\* a lookup may come back empty
AnySite(m, f) ==
  [movies |-> m, faults |-> f, sizes |-> 0..m, embeds |-> EmbedLists,
   streams |-> {TRUE, FALSE}, tmdb |-> TmdbResults]

\* an environment where a listing shows no card or m cards, and every card has
\* a VidFast embed, a stream and a lookup result
FullSite(m, f) ==
  [movies |-> m, faults |-> f, sizes |-> {0, m}, embeds |-> {<<OtherLink, VidFastLink>>},
   streams |-> {TRUE}, tmdb |-> {"found"}]

Start == MainStartState /\ ResolverIdle /\ HarnessIdle

Init ==
  /\ genres = GenrePrefix
  /\ limits = AnySite(MaxMovies, MaxFaults)
  /\ Start

InitCategory ==
  /\ genres = OneGenre
  /\ limits = AnySite(CategoryMovies, CategoryFaults)
  /\ Start

InitRefresh ==
  /\ genres = OneGenre
  /\ limits = FullSite(RefreshMovies, RefreshFaults)
  /\ Start

Running == mainPc = "await"

(* ------------------------------------------------------------------ *)
(* main() and processAllGenres(): what runs when a category settles    *)
(* ------------------------------------------------------------------ *)
RECURSIVE Flatten(_)
Flatten(ss) == IF ss = <<>> THEN <<>> ELSE Head(ss) \o Flatten(Tail(ss))

Settled(p) == p \in {"done", "rejected"}

\* for (const result of chunkResults): the values of the fulfilled categories,
\* in chunk order
ChunkValues(k, npc, nitems) ==
  Flatten([j \in 1..Len(ChunkOf(k)) |->
             IF npc[ChunkOf(k)[j]] = "done" THEN nitems[ChunkOf(k)[j]] ELSE <<>>])

\* (mutant: the genre entries before the trending entries)
AllItemsGenresFirst(trendingItems, genreItems) == genreItems \o trendingItems
\* the list main() builds: [...trendingItems, ...genreItems]
AllItems(trendingItems, genreItems) == trendingItems \o genreItems

\* Promise.all([processTrendingMovies(), processAllGenres()]) rejects as soon
\* as one of the two rejects and fulfils when both have fulfilled
PromiseAllRejected(tp, ap) == tp = "rejected" \/ ap = "rejected"
\* (mutant: Promise.any in place of Promise.all)
PromiseAnyFulfilled(tp, ap) == tp = "done" \/ ap = "done"
PromiseAllFulfilled(tp, ap) == tp = "done" /\ ap = "done"

\* (mutant: the export is attempted whatever the count)
ShouldExportAlways(allItems) == TRUE
\* if (allItems.length > 0)
ShouldExport(allItems) == Len(allItems) > 0

\* (mutant: the exit code tells whether the run ended in the catch block)
ExitCodeByOutcome(o) == IF o \in {"caught", "exportFailed"} THEN 1 ELSE 0
\* finally { process.exit(0) }
ExitCode(o) == 0

\* The reactions that run after the categories' positions became npc and their
\* lists nitems: Promise.allSettled of the chunk in flight, the rest of
\* processAllGenres, Promise.all and the rest of main().  f: faults so far.
Reactions(npc, nitems, f) ==
  LET chunkDone == agPc = "awaitChunk" /\ \A g \in ChunkSet(chunk) : Settled(npc[g])
      nall == IF chunkDone
                THEN allGenreItems \o ChunkValues(chunk, npc, nitems)
                ELSE allGenreItems
      nag == IF chunkDone
               THEN (IF chunk < NumChunks THEN "delay" ELSE "done")
               ELSE agPc
      allItems == AllItems(nitems[Trending], nall)
  IN /\ agPc' = nag
     /\ allGenreItems' = nall
     /\ chunk' = chunk
     /\ UNCHANGED << genres, limits, resolverVars, harnessVars >>
     /\ IF mainPc = "await" /\ PromiseAllRejected(npc[Trending], nag)
          THEN \* catch (error) ... finally process.exit(0)
               /\ mainPc' = "exit" /\ outcome' = "caught"
               /\ file' = file /\ faults' = f
               /\ exitCode' = ExitCode(outcome')
          ELSE IF mainPc = "await" /\ PromiseAllFulfilled(npc[Trending], nag)
          THEN /\ mainPc' = "exit"
               /\ IF ShouldExport(allItems)
                    THEN \/ /\ outcome' = "exported" /\ file' = <<allItems>>
                            /\ faults' = f
                         \/ \* writeFile throws, exportToM3U rethrows
                            /\ f < limits.faults
                            /\ outcome' = "exportFailed" /\ file' = file
                            /\ faults' = f + 1
                    ELSE outcome' = "noop" /\ file' = file /\ faults' = f
               /\ exitCode' = ExitCode(outcome')
          ELSE /\ mainPc' = mainPc /\ outcome' = outcome
               /\ file' = file /\ faults' = f
               /\ exitCode' = exitCode

\* a step that settles no category and finishes nothing
NoReactions(f) ==
  /\ faults' = f
  /\ UNCHANGED << genres, limits, mainPc, exitCode, outcome, file, agPc, chunk,
                  allGenreItems, resolverVars, harnessVars >>

(* ------------------------------------------------------------------ *)
(* The item loops                                                      *)
(* ------------------------------------------------------------------ *)
CatVars(c, p, i, its, n, pend, O) ==
  /\ pc' = [pc EXCEPT ![c] = p]
  /\ idx' = [idx EXCEPT ![c] = i]
  /\ items' = [items EXCEPT ![c] = its]
  /\ movies' = [movies EXCEPT ![c] = n]
  /\ pending' = [pending EXCEPT ![c] = pend]
  /\ ops' = O

\* if (i > 0 && i % CONFIG.LIMITS.BROWSER_REFRESH_INTERVAL === 0)
RefreshDue(i) == i > 0 /\ i % BROWSER_REFRESH_INTERVAL = 0

\* processGenre, head of `for (let i = 0; i < movies.length; i++)` with index i:
\* the refresh starts, or processMovie starts on the current browser, or the
\* loop is over and the finally block calls browser.close()
GenreLoop(g, i, its, n, O) ==
  IF i < n
    THEN IF RefreshDue(i)
           THEN CatVars(g, "rclose", i, its, n, FALSE, O)
           ELSE CatVars(g, "item", i, its, n, FALSE,
                        O \cup {MovieOp(g, i + 1, Browser(g))})
    ELSE CatVars(g, "close", i, its, n, FALSE, O)

\* processTrendingMovies, head of `for (const movie of trendingMovies)`
TrendingLoop(i, its, n, O) ==
  IF i < n
    THEN CatVars(Trending, "item", i, its, n, FALSE,
                 O \cup {MovieOp(Trending, i + 1, Browser(Trending))})
    ELSE CatVars(Trending, "close", i, its, n, FALSE, O)

CatLoop(c, i, its, n, O) ==
  IF c = Trending THEN TrendingLoop(i, its, n, O) ELSE GenreLoop(c, i, its, n, O)

\* (mutant: processGenre has no catch either)
CatThrowUncaught(c, O) ==
  CatVars(c, "close", idx[c], items[c], movies[c], TRUE, O)
\* an exception reaches the category's try block outside the per-item guard
\* (while it awaits discovery, or the launch of a refresh): processGenre
\* catches it (line 162), processTrendingMovies has no catch and the exception
\* stays pending through its finally block
CatThrow(c, O) ==
  CatVars(c, "close", idx[c], items[c], movies[c], c = Trending, O)

(* ------------------------------------------------------------------ *)
(* withTimeout                                                         *)
(* ------------------------------------------------------------------ *)
\* (mutant: promise.then(...) with no .catch(...))
withTimeoutNoCatch == FALSE
\* promise.then(...).catch(...): a rejection of the wrapped promise always has
\* a handler, before and after the timer fired
withTimeoutHandles == TRUE

\* (mutant: the late outcome still reaches the caller)
withTimeoutDeliversLate(o) == TRUE
\* resolve / reject called after the timer's reject do nothing: the caller
\* receives the wrapped promise's outcome only if the timer has not fired
withTimeoutDelivers(o) == ~Abandoned(o)

(* ------------------------------------------------------------------ *)
(* main()                                                              *)
(* ------------------------------------------------------------------ *)
\* main() up to `await Promise.all`: processTrendingMovies() runs up to its
\* createBrowser(), processAllGenres() gets the genres and dispatches the
\* first chunk, every processGenre of it running up to its createBrowser()
\* (mutant: processTrendingMovies() is not called)
StartedByGenresOnly(c) == c \in ChunkSet(1)
StartedBy(c) == c = Trending \/ c \in ChunkSet(1)

MainStart ==
  /\ mainPc = "init"
  /\ mainPc' = "await"
  /\ pc' = [c \in Cats |-> IF StartedBy(c) THEN "launch" ELSE pc[c]]
  /\ IF Len(genres) = 0
       THEN agPc' = "done" /\ chunk' = chunk
       ELSE agPc' = "awaitChunk" /\ chunk' = 1
  /\ UNCHANGED << resolverVars, harnessVars, launchFailures, launchedAt, refreshed, genres, limits, exitCode, outcome, file, allGenreItems, sess, movies,
                  idx, items, pending, ops, noProvider, resolved, timedOut,
                  lateFailures, unhandled, served, faults >>

\* setTimeout(BETWEEN_CHUNKS) fires: the next chunk is dispatched
ChunkDelay ==
  /\ Running
  /\ agPc = "delay"
  /\ agPc' = "awaitChunk"
  /\ chunk' = chunk + 1
  /\ pc' = [c \in Cats |-> IF c \in ChunkSet(chunk + 1) THEN "launch" ELSE pc[c]]
  /\ UNCHANGED << resolverVars, harnessVars, launchFailures, launchedAt, refreshed, genres, limits, mainPc, exitCode, outcome, file, allGenreItems, sess,
                  movies, idx, items, pending, ops, noProvider, resolved,
                  timedOut, lateFailures, unhandled, served, faults >>

(* ------------------------------------------------------------------ *)
(* createBrowser / browser.close                                       *)
(* ------------------------------------------------------------------ *)
Launched(c) == [sess EXCEPT ![c] = Append(sess[c], "open")]

CloseOk(st) == "closed"
CloseThrows(st) == IF st = "closed" THEN "closed" ELSE "closeFailed"

\* (mutant: browser.close() is not called)
ClosedNever(c, ok) == sess
\* await browser.close() on the category's current session settles
Closed(c, ok) ==
  IF Browser(c) = 0 THEN sess
  ELSE [sess EXCEPT ![c][Browser(c)] =
          IF ok THEN CloseOk(sess[c][Browser(c)]) ELSE CloseThrows(sess[c][Browser(c)])]

\* processGenre line 116 / processTrendingMovies line 206: createBrowser()
\* settles.  A launch that throws is outside every try block.
CatLaunch(c) ==
  /\ Running
  /\ pc[c] = "launch"
  /\ \/ /\ sess' = Launched(c)
        /\ CatVars(c, "discover", 0, <<>>, 0, FALSE,
                   ops \cup {DiscoveryOp(c, Browser(c) + 1)})
        /\ NoReactions(faults)
        /\ launchFailures' = launchFailures
        /\ launchedAt' = [launchedAt EXCEPT ![c] = Append(@, 0)]
     \/ /\ CanFault
        /\ sess' = sess
        /\ CatVars(c, "rejected", 0, <<>>, 0, FALSE, ops)
        /\ Reactions([pc EXCEPT ![c] = "rejected"], items, faults + 1)
        /\ launchFailures' = [launchFailures EXCEPT ![c] = @ + 1]
        /\ launchedAt' = launchedAt
  /\ UNCHANGED << refreshed, noProvider, resolved, timedOut, lateFailures, unhandled, served >>

\* finally { await browser.close() } settles.  processGenre catches a close
\* that throws and returns items; processTrendingMovies does not, and it
\* rejects too when an exception is pending.
CatClose(c) ==
  /\ Running
  /\ pc[c] = "close"
  /\ \/ /\ sess' = Closed(c, TRUE)
        /\ LET p == IF pending[c] THEN "rejected" ELSE "done"
           IN /\ CatVars(c, p, idx[c], items[c], movies[c], FALSE, ops)
              /\ Reactions([pc EXCEPT ![c] = p], items, faults)
     \/ /\ CanFault
        /\ sess' = Closed(c, FALSE)
        /\ LET p == IF c = Trending THEN "rejected" ELSE "done"
           IN /\ CatVars(c, p, idx[c], items[c], movies[c], FALSE, ops)
              /\ Reactions([pc EXCEPT ![c] = p], items, faults + 1)
  /\ UNCHANGED << launchFailures, launchedAt, refreshed, noProvider, resolved, timedOut, lateFailures, unhandled, served >>

\* the periodic refresh of processGenre (lines 134-143)
GenreRefreshClose(g) ==
  /\ Running
  /\ g # Trending
  /\ pc[g] = "rclose"
  /\ \/ sess' = Closed(g, TRUE) /\ NoReactions(faults)
     \/ CanFault /\ sess' = Closed(g, FALSE) /\ NoReactions(faults + 1)
  /\ pc' = [pc EXCEPT ![g] = "rlaunch"]
  /\ refreshed' = [refreshed EXCEPT ![g] = << items[g] >>]
  /\ UNCHANGED << launchFailures, launchedAt, movies, idx, items, pending, ops, noProvider, resolved,
                  timedOut, lateFailures, unhandled, served >>

GenreRefreshLaunch(g) ==
  /\ Running
  /\ g # Trending
  /\ pc[g] = "rlaunch"
  /\ \/ /\ sess' = Launched(g)
        /\ pc' = [pc EXCEPT ![g] = "rdelay"]
        /\ NoReactions(faults)
        /\ launchFailures' = launchFailures
        /\ launchedAt' = [launchedAt EXCEPT ![g] = Append(@, idx[g])]
        /\ UNCHANGED << movies, idx, items, pending, ops >>
     \/ \* the launch throws: caught at line 162, then the finally block
        /\ CanFault
        /\ sess' = sess
        /\ CatThrow(g, ops)
        /\ NoReactions(faults + 1)
        /\ launchFailures' = [launchFailures EXCEPT ![g] = @ + 1]
        /\ launchedAt' = launchedAt
  /\ UNCHANGED << refreshed, noProvider, resolved, timedOut, lateFailures, unhandled,
                  served >>

GenreRefreshDelay(g) ==
  /\ Running
  /\ g # Trending
  /\ pc[g] = "rdelay"
  /\ CatVars(g, "item", idx[g], items[g], movies[g], FALSE,
             ops \cup {MovieOp(g, idx[g] + 1, Browser(g))})
  /\ NoReactions(faults)
  /\ UNCHANGED << launchFailures, launchedAt, refreshed, sess, noProvider, resolved, timedOut, lateFailures, unhandled, served >>

\* a browser session becomes unusable
SessionCrash(c) ==
  /\ Running
  /\ CanFault
  /\ SessionUsable(c, Browser(c))
  /\ pc[c] \in {"discover", "item"}
  /\ sess' = [sess EXCEPT ![c][Browser(c)] = "crashed"]
  /\ NoReactions(faults + 1)
  /\ UNCHANGED << launchFailures, launchedAt, refreshed, pc, movies, idx, items, pending, ops, noProvider, resolved,
                  timedOut, lateFailures, unhandled, served >>

\* history: operation o, abandoned by its withTimeout, takes a step on a
\* session that is closed or crashed
LateFailure(o) ==
  IF Abandoned(o) /\ ~SessionUsable(o.cat, o.s)
    THEN lateFailures \cup {<<o.cat, o.item>>}
    ELSE lateFailures

(* ------------------------------------------------------------------ *)
(* getTrendingMoviesPuppeteer (discovery), run under withTimeout       *)
(* ------------------------------------------------------------------ *)
\* what the awaiting category does with the outcome of its discovery
DiscoveryRejected(o) ==
  /\ unhandled' = (unhandled \/ ~withTimeoutHandles)
  /\ IF withTimeoutDelivers(o)
       THEN CatThrow(o.cat, ops \ {o})
       ELSE /\ ops' = ops \ {o}
            /\ UNCHANGED << pc, idx, items, movies, pending >>

DiscoveryFulfilled(o, n) ==
  /\ unhandled' = unhandled
  /\ IF withTimeoutDelivers(o)
       THEN /\ CatLoop(o.cat, 0, <<>>, n, ops \ {o})
            /\ served' = served + n
       ELSE /\ ops' = ops \ {o}
            /\ served' = served
            /\ UNCHANGED << pc, idx, items, movies, pending >>

\* `const page = await browser.newPage()` is outside the try block: on a
\* session that is closed or crashed it throws to the caller
DiscoverNewPage(o) ==
  /\ Running
  /\ o \in ops /\ o.kind = "discover" /\ o.stage = "newPage"
  /\ IF SessionUsable(o.cat, o.s)
       THEN /\ ops' = (ops \ {o}) \cup {[o EXCEPT !.stage = "scrape"]}
            /\ UNCHANGED << pc, idx, items, movies, pending, unhandled >>
       ELSE DiscoveryRejected(o)
  /\ lateFailures' = LateFailure(o)
  /\ NoReactions(faults)
  /\ UNCHANGED << launchFailures, launchedAt, refreshed, sess, noProvider, resolved, timedOut, served >>

\* the try block: navigation, genre selection, extractMovies(page, limit).  Any
\* error in it is caught and gives []; closePage catches its own errors.
DiscoverScrape(o) ==
  /\ Running
  /\ o \in ops /\ o.kind = "discover" /\ o.stage = "scrape"
  /\ \E n \in { m \in limits.sizes : m <= Min(Limit(o.cat), limits.movies - served) } :
        /\ (~SessionUsable(o.cat, o.s) \/ Abandoned(o)) => n = 0
        /\ DiscoveryFulfilled(o, n)
  /\ lateFailures' = LateFailure(o)
  /\ NoReactions(faults)
  /\ UNCHANGED << launchFailures, launchedAt, refreshed, sess, noProvider, resolved, timedOut >>

(* ------------------------------------------------------------------ *)
(* processMovie, run under withTimeout                                 *)
(* ------------------------------------------------------------------ *)
\* (mutant: the first link, whatever its provider)
findFirst(embedLinks) == IF embedLinks = <<>> THEN NULL ELSE Head(embedLinks)
\* embedLinks.find(link => link.includes('vidfast')), NULL for undefined
RECURSIVE find(_)
find(embedLinks) ==
  IF embedLinks = <<>> THEN NULL
  ELSE IF IncludesVidfast(Head(embedLinks)) THEN Head(embedLinks)
  ELSE find(Tail(embedLinks))

\* if (!vidFastLink) return null
NoServer(vidFastLink) == vidFastLink = NULL

\* (mutant: the check is missing)
NoStreamUnchecked(m3u8) == FALSE
\* if (!m3u8) return null
NoStream(m3u8) == m3u8 = NULL \/ m3u8 = ""

\* movie.poster of card k and its `${movie.quality}`, which every other card
\* carries (a list of at most one part); posterUrl of the lookup's result for
\* it and its `IMDb ${tmdbInfo.rating}`
RawPoster(k) == <<"poster", k>>
RawQuality(k) == IF k % 2 = 1 THEN << <<"quality", k>> >> ELSE <<>>
TmdbPoster(k) == <<"posterUrl", k>>
TmdbRating(k) == <<"IMDb", k>>

\* the separator of the description's parts, a bullet between two spaces
DescriptionSeparator == << " bullet " >>

\* parts.join(separator)
RECURSIVE Join(_, _)
Join(parts, separator) ==
  IF Len(parts) <= 1 THEN parts
  ELSE << Head(parts), separator >> \o Join(Tail(parts), separator)

\* (mutant: the rating part is written whatever the lookup returned)
DescriptionRated(movie, tmdbInfo) ==
  Join(RawQuality(movie) \o << TmdbRating(movie) >>, DescriptionSeparator)
\* [movie.quality ? `${movie.quality}` : null,
\*  tmdbInfo?.rating ? `IMDb ${tmdbInfo.rating}` : null].filter(Boolean).join(DescriptionSeparator)
Description(movie, tmdbInfo) ==
  Join(RawQuality(movie)
         \o (IF tmdbInfo # NULL THEN << TmdbRating(movie) >> ELSE <<>>),
       DescriptionSeparator)

\* (mutant: the embed page's URL in place of the manifest's)
M3UItemEmbedUrl(movie, groupName, m3u8, tmdbInfo) ==
  [title |-> IF tmdbInfo # NULL THEN TmdbTitle(movie) ELSE RawTitle(movie),
   logo |-> IF tmdbInfo # NULL THEN TmdbPoster(movie) ELSE RawPoster(movie),
   group |-> groupName,
   streamUrl |-> VidFastLink,
   description |-> Description(movie, tmdbInfo),
   src |-> movie]
\* the M3UItem processMovie returns (src: the card it was made from, which the
\* program's record does not carry)
M3UItem(movie, groupName, m3u8, tmdbInfo) ==
  [title |-> IF tmdbInfo # NULL THEN TmdbTitle(movie) ELSE RawTitle(movie),
   logo |-> IF tmdbInfo # NULL THEN TmdbPoster(movie) ELSE RawPoster(movie),
   group |-> groupName,
   streamUrl |-> m3u8,
   description |-> Description(movie, tmdbInfo),
   src |-> movie]

\* processMovie settles with result (<<>> for null, else << item >>): the
\* category's `if (item) items.push(item)` and the next iteration, unless the
\* timer fired first
MovieSettled(o, result) ==
  /\ unhandled' = unhandled
  /\ IF withTimeoutDelivers(o)
       THEN CatLoop(o.cat, idx[o.cat] + 1, items[o.cat] \o result, movies[o.cat],
                    ops \ {o})
       ELSE /\ ops' = ops \ {o}
            /\ UNCHANGED << pc, idx, items, movies, pending >>

\* processMovie rejects: the category's `catch (error) { console.warn(...) }`
\* around the item skips it, unless the timer fired first
MovieRejected(o) ==
  /\ unhandled' = (unhandled \/ ~withTimeoutHandles)
  /\ IF withTimeoutDelivers(o)
       THEN CatLoop(o.cat, idx[o.cat] + 1, items[o.cat], movies[o.cat], ops \ {o})
       ELSE /\ ops' = ops \ {o}
            /\ UNCHANGED << pc, idx, items, movies, pending >>

\* try { ... } catch (error) { console.error(...); return null; } around the
\* whole body of processMovie
processMovieCatches == TRUE

\* an awaited call of processMovie throws
MovieThrows(o) ==
  IF processMovieCatches THEN MovieSettled(o, <<>>) ELSE MovieRejected(o)

MovieContinues(o, stage, val) ==
  /\ unhandled' = unhandled
  /\ ops' = (ops \ {o}) \cup {[o EXCEPT !.stage = stage, !.val = val]}
  /\ UNCHANGED << pc, idx, items, movies, pending >>

\* await getStreamLinksFromWatchPage(browser, movie.watchPage), then find.
\* On a closed or crashed session its newPage (outside its try block) throws.
MovieExtract(o) ==
  /\ Running
  /\ o \in ops /\ o.kind = "movie" /\ o.stage = "extract"
  /\ IF ~SessionUsable(o.cat, o.s)
       THEN MovieThrows(o) /\ noProvider' = noProvider
       ELSE \E embedLinks \in limits.embeds :
              /\ noProvider' =
                   IF \A j \in 1..Len(embedLinks) : ~IncludesVidfast(embedLinks[j])
                     THEN noProvider \cup {<<o.cat, o.item>>}
                     ELSE noProvider
              /\ IF NoServer(find(embedLinks))
                   THEN MovieSettled(o, <<>>)
                   ELSE MovieContinues(o, "resolve", find(embedLinks))
  /\ NoReactions(faults)
  /\ lateFailures' = LateFailure(o)
  /\ UNCHANGED << launchFailures, launchedAt, refreshed, sess, resolved, timedOut, served >>

\* await resolveM3U8FromEmbed(browser, vidFastLink): the captured URL or null;
\* it throws on a closed or crashed session (newPage)
MovieResolve(o) ==
  /\ Running
  /\ o \in ops /\ o.kind = "movie" /\ o.stage = "resolve"
  /\ IF ~SessionUsable(o.cat, o.s)
       THEN MovieThrows(o) /\ resolved' = resolved
       ELSE \E m3u8 \in { IF found THEN ManifestUrl(o.item) ELSE NULL :
                            found \in limits.streams } :
              /\ resolved' =
                   IF m3u8 # NULL THEN resolved \cup {<<o.cat, o.item, m3u8>>}
                   ELSE resolved
              /\ IF NoStream(m3u8)
                   THEN MovieSettled(o, <<>>)
                   ELSE MovieContinues(o, "enrich", m3u8)
  /\ NoReactions(faults)
  /\ lateFailures' = LateFailure(o)
  /\ UNCHANGED << launchFailures, launchedAt, refreshed, sess, noProvider, timedOut, served >>

\* await fetchTMDBInfo(cleanTitle), then the return of the item
MovieEnrich(o) ==
  /\ Running
  /\ o \in ops /\ o.kind = "movie" /\ o.stage = "enrich"
  /\ \E tmdbInfo \in limits.tmdb :
        MovieSettled(o, << M3UItem(o.item, o.cat, o.val, tmdbInfo) >>)
  /\ NoReactions(faults)
  /\ UNCHANGED << launchFailures, launchedAt, refreshed, sess, noProvider, resolved, timedOut, lateFailures, served >>

\* the timer of withTimeout fires before the wrapped promise settled: the
\* caller gets the rejection, the operation keeps running unobserved
Timeout(o) ==
  /\ Running
  /\ CanFault
  /\ o \in ops /\ ~Abandoned(o)
  /\ timedOut' = timedOut \cup {<<o.cat, o.item>>}
  /\ LET O == (ops \ {o}) \cup {[o EXCEPT !.firedAt = o.stage]}
     IN IF o.kind = "discover"
          THEN CatThrow(o.cat, O)
          ELSE \* catch (error) { console.warn(`Skipped ...`) }
               CatLoop(o.cat, idx[o.cat] + 1, items[o.cat], movies[o.cat], O)
  /\ NoReactions(faults + 1)
  /\ UNCHANGED << launchFailures, launchedAt, refreshed, sess, noProvider, resolved, lateFailures, unhandled, served >>

(* ------------------------------------------------------------------ *)
(* resolveM3U8FromEmbed, step by step                                  *)
(* ------------------------------------------------------------------ *)
\* URLs of the requests an embed page can issue: manifests, a manifest with a
\* query string, a media segment
SegmentUrl == "https://cdn.example/seg-1.ts"
SignedManifestUrl == "https://cdn.example/a.m3u8?token=1"
RequestUrls == Range(ManifestUrls) \cup {SignedManifestUrl, SegmentUrl}

\* url.includes('.m3u8')
IncludesM3u8(url) == url \in Range(ManifestUrls) \cup {SignedManifestUrl}

\* (mutant: a navigation with no timeout, on a page that never loads)
GotoNeverSettles == FALSE
\* page.goto(embedUrl, { waitUntil: 'domcontentloaded', timeout: EMBED_LOADING })
\* settles: it fulfils, or it throws when the timeout is over
GotoSettles == TRUE

\* handleRequest: if (url.includes('.m3u8')) m3u8Url = url
handleRequest(current, url) == IF IncludesM3u8(url) THEN url ELSE current

Resolving == resolvePc \notin {"idle", "returned", "thrown"}

\* an await of the resolver completes and it moves to p
ResolveTo(p) ==
  /\ resolvePc' = p
  /\ resolveSteps' = resolveSteps + 1
  /\ UNCHANGED << mainVars, harnessVars >>

\* the finally block up to its await of page.close(): page.off('request',
\* handleRequest); await page.removeAllListeners()
ResolveFinally ==
  /\ handler' = FALSE
  /\ ResolveTo("close")

\* const page = await browser.newPage(), outside the try block
ResolveNewPage ==
  /\ resolvePc = "newPage"
  /\ ResolveTo(IF resolveBrowser = "open" THEN "setRequestInterception" ELSE "thrown")
  /\ UNCHANGED << resolveBrowser, handler, m3u8Url, resolveResult, requests, matched,
                  navFailed, clickFailed >>

\* await page.setRequestInterception(true), outside the try block, then
\* page.on('request', handleRequest) and the call of page.goto
ResolveSetInterception ==
  /\ resolvePc = "setRequestInterception"
  /\ IF resolveBrowser = "open"
       THEN handler' = TRUE /\ ResolveTo("goto")
       ELSE handler' = handler /\ ResolveTo("thrown")
  /\ UNCHANGED << resolveBrowser, m3u8Url, resolveResult, requests, matched,
                  navFailed, clickFailed >>

\* await page.goto(...) settles: fulfilled, or thrown (navigation error,
\* timeout, dead session) into catch and finally
ResolveGoto ==
  /\ resolvePc = "goto"
  /\ GotoSettles
  /\ \/ /\ resolveBrowser = "open"
        /\ ResolveTo("loadWait")
        /\ UNCHANGED << handler, navFailed >>
     \/ /\ navFailed' = TRUE
        /\ ResolveFinally
  /\ UNCHANGED << resolveBrowser, m3u8Url, resolveResult, requests, matched, clickFailed >>

\* the 2000 ms timer fires, page.mouse.click(400, 300) is called
ResolveLoadWait ==
  /\ resolvePc = "loadWait"
  /\ ResolveTo("click")
  /\ UNCHANGED << resolveBrowser, handler, m3u8Url, resolveResult, requests, matched,
                  navFailed, clickFailed >>

\* await page.mouse.click settles; a click that throws is caught (line 572)
ResolveClick ==
  /\ resolvePc = "click"
  /\ \/ resolveBrowser = "open" /\ clickFailed' = clickFailed
     \/ clickFailed' = TRUE
  /\ ResolveTo("interactionWait")
  /\ UNCHANGED << resolveBrowser, handler, m3u8Url, resolveResult, requests, matched,
                  navFailed >>

\* the INTERACTION_WAIT timer fires: end of the try block, then finally
ResolveInteractionWait ==
  /\ resolvePc = "interactionWait"
  /\ ResolveFinally
  /\ UNCHANGED << resolveBrowser, m3u8Url, resolveResult, requests, matched,
                  navFailed, clickFailed >>

\* await page.close() in the finally block settles: `return m3u8Url`, or the
\* exception of a close on a dead session leaves the function
ResolveClose ==
  /\ resolvePc = "close"
  /\ IF resolveBrowser = "open"
       THEN /\ ResolveTo("returned")
            /\ resolveResult' = m3u8Url
       ELSE /\ ResolveTo("thrown")
            /\ resolveResult' = resolveResult
  /\ UNCHANGED << resolveBrowser, handler, m3u8Url, requests, matched, navFailed,
                  clickFailed >>

\* the page issues a request while it is open: handleRequest runs if it is
\* attached (after page.off the request is intercepted and nobody continues it)
ResolveRequest(url) ==
  /\ resolvePc \in {"goto", "loadWait", "click", "interactionWait", "close"}
  /\ resolveBrowser = "open"
  /\ requests < MaxRequests
  /\ requests' = requests + 1
  /\ IF handler
       THEN /\ m3u8Url' = handleRequest(m3u8Url, url)
            /\ matched' = IF IncludesM3u8(url) THEN Append(matched, url) ELSE matched
       ELSE UNCHANGED << m3u8Url, matched >>
  /\ UNCHANGED << resolvePc, resolveBrowser, handler, resolveResult, resolveSteps,
                  navFailed, clickFailed >>
  /\ UNCHANGED << mainVars, harnessVars >>

\* the browser session becomes unusable during the call
ResolveCrash ==
  /\ Resolving
  /\ resolveBrowser = "open"
  /\ resolveBrowser' = "crashed"
  /\ UNCHANGED << resolvePc, handler, m3u8Url, resolveResult, resolveSteps, requests,
                  matched, navFailed, clickFailed >>
  /\ UNCHANGED << mainVars, harnessVars >>

(* ------------------------------------------------------------------ *)
(* resolveM3U8FromEmbed with retries (the earlier version of the file) *)
(* ------------------------------------------------------------------ *)
Retrying == retryPc \notin {"idle", "returned", "thrown"}

\* (mutant: the try block ends without its return)
FoundNever(url) == FALSE
\* if (m3u8Url) return m3u8Url
Found(url) == url # NULL /\ url # ""

\* the try block is left, by its end, its return or its catch: the finally
\* block runs page.off('request', handleRequest) and awaits page.close()
RetryFinally(threw) ==
  /\ retryListening' = FALSE
  /\ attemptLog' = Append(attemptLog, [url |-> retryUrl, threw |-> threw])
  /\ retryPc' = "close"
  /\ UNCHANGED << retryBrowser, attempt, retryUrl, retryResult >>

\* while (attempt < maxAttempts) { const page = await browser.newPage();
\* let m3u8Url = null; page.on('request', handleRequest); try { page.goto(...)
RetryNewPage ==
  /\ retryPc = "newPage"
  /\ attempt < maxAttempts
  /\ IF retryBrowser = "crashed"
       THEN /\ retryPc' = "thrown"
            /\ UNCHANGED << retryUrl, retryListening >>
       ELSE /\ retryPc' = "goto"
            /\ retryUrl' = NULL
            /\ retryListening' = TRUE
  /\ UNCHANGED << retryBrowser, attempt, retryResult, attemptLog >>
  /\ UNCHANGED << mainVars, resolverVars, callPc, titleVars, selectVars, exportVars, scraperVars >>

\* await page.goto(embedUrl, { waitUntil: 'networkidle2', timeout: 20000 })
\* fulfils, or throws (the timeout, a navigation error, a dead session)
RetryGoto ==
  /\ retryPc = "goto"
  /\ \/ /\ retryBrowser = "open"
        /\ retryPc' = "loadWait"
        /\ UNCHANGED << retryBrowser, attempt, retryUrl, retryListening, retryResult,
                        attemptLog >>
     \/ RetryFinally(TRUE)
  /\ UNCHANGED << mainVars, resolverVars, callPc, titleVars, selectVars, exportVars, scraperVars >>

\* await new Promise(res => setTimeout(res, 3000))
RetryLoadWait ==
  /\ retryPc = "loadWait"
  /\ retryPc' = "click"
  /\ UNCHANGED << retryBrowser, attempt, retryUrl, retryListening, retryResult, attemptLog >>
  /\ UNCHANGED << mainVars, resolverVars, callPc, titleVars, selectVars, exportVars, scraperVars >>

\* await page.mouse.click(400, 300) fulfils or throws
RetryClick ==
  /\ retryPc = "click"
  /\ \/ /\ retryBrowser = "open"
        /\ retryPc' = "interactionWait"
        /\ UNCHANGED << retryBrowser, attempt, retryUrl, retryListening, retryResult,
                        attemptLog >>
     \/ RetryFinally(TRUE)
  /\ UNCHANGED << mainVars, resolverVars, callPc, titleVars, selectVars, exportVars, scraperVars >>

\* await new Promise(res => setTimeout(res, 6000)); if (m3u8Url) return m3u8Url;
\* either way the finally block runs next
RetryInteractionWait ==
  /\ retryPc = "interactionWait"
  /\ RetryFinally(FALSE)
  /\ UNCHANGED << mainVars, resolverVars, callPc, titleVars, selectVars, exportVars, scraperVars >>

\* await page.close() in the finally block: it throws on a dead session;
\* otherwise the pending return completes, or attempt++ and the loop test
\* follow, and `return null` once the loop is over
RetryClose ==
  /\ retryPc = "close"
  /\ LET last == attemptLog[Len(attemptLog)]
     IN IF retryBrowser = "crashed"
          THEN /\ retryPc' = "thrown"
               /\ UNCHANGED << attempt, retryResult >>
          ELSE IF ~last.threw /\ Found(last.url)
            THEN /\ retryPc' = "returned"
                 /\ retryResult' = last.url
                 /\ UNCHANGED attempt
            ELSE /\ attempt' = attempt + 1
                 /\ retryPc' = IF attempt + 1 < maxAttempts THEN "newPage" ELSE "returned"
                 /\ retryResult' = NULL
  /\ UNCHANGED << retryBrowser, retryUrl, retryListening, attemptLog >>
  /\ UNCHANGED << mainVars, resolverVars, callPc, titleVars, selectVars, exportVars, scraperVars >>

\* the page issues a request while handleRequest is attached
RetryRequest(url) ==
  /\ retryPc \in {"goto", "loadWait", "click", "interactionWait"}
  /\ retryBrowser = "open"
  /\ retryListening
  /\ retryUrl' = handleRequest(retryUrl, url)
  /\ UNCHANGED << retryPc, retryBrowser, attempt, retryListening, retryResult, attemptLog >>
  /\ UNCHANGED << mainVars, resolverVars, callPc, titleVars, selectVars, exportVars, scraperVars >>

\* the browser session becomes unusable during the call
RetryCrash ==
  /\ Retrying
  /\ retryBrowser = "open"
  /\ retryBrowser' = "crashed"
  /\ UNCHANGED << retryPc, attempt, retryUrl, retryListening, retryResult, attemptLog >>
  /\ UNCHANGED << mainVars, resolverVars, callPc, titleVars, selectVars, exportVars, scraperVars >>

(* ------------------------------------------------------------------ *)
(* cleanMovieTitle                                                     *)
(* ------------------------------------------------------------------ *)
\* A string is a sequence of tokens: a word (a run of letters no pattern of
\* cleanMovieTitle matches inside), a month name, a digit, or one character
\* of punctuation.
MonthNames ==
  { "Jan", "Feb", "Mar", "Apr", "May", "Jun", "Jul", "Aug", "Sep", "Oct", "Nov", "Dec" }
Digits == { "0", "1", "2", "3", "4", "5", "6", "7", "8", "9" }
\* words by the case of their first and of their last letter
LowerWords == { "x" }
UpperWords == { "X", "NOV" }
CapitalisedWords == MonthNames \cup { "Interstellar", "Good", "Movie" }
Bullet == "bullet"

\* the token at position i, "" outside the string
Tok(s, i) == IF i \in 1..Len(s) THEN s[i] ELSE ""

\* [a-zA-Z\d]: the last character of the token is a letter or a digit
EndsAlnum(t) == t \in LowerWords \cup UpperWords \cup CapitalisedWords \cup Digits
\* \w at either end of the token
IsWord(t) == EndsAlnum(t)
\* [a-z] as last character, [A-Z] as first character
EndsLower(t) == t \in LowerWords \cup CapitalisedWords
StartsUpper(t) == t \in UpperWords \cup CapitalisedWords
\* (Jan|Feb|...|Dec), and the same under the i flag
IsMonth(t) == t \in MonthNames
IsMonthIgnoreCase(t) == t \in MonthNames \cup { "NOV" }
IsDigit(t) == t \in Digits
IsSpace(t) == t = " "

\* \d{1,2}, from position j: the position after the comma, 0 if no match
DayComma(s, j) ==
  IF IsDigit(Tok(s, j)) /\ Tok(s, j + 1) = "," THEN j + 2
  ELSE IF IsDigit(Tok(s, j)) /\ IsDigit(Tok(s, j + 1)) /\ Tok(s, j + 2) = "," THEN j + 3
  ELSE 0

\* \d{2} from position j: the position after it, 0 if no match
Year(s, j) == IF j > 0 /\ IsDigit(Tok(s, j)) /\ IsDigit(Tok(s, j + 1)) THEN j + 2 ELSE 0

\* \s? from position j
OptSpace(s, j) == IF IsSpace(Tok(s, j)) THEN {j, j + 1} ELSE {j}

\* \s+ from position j: the position after the run of spaces, 0 if there is none
RECURSIVE SkipSpaces(_, _)
SkipSpaces(s, j) == IF IsSpace(Tok(s, j)) THEN SkipSpaces(s, j + 1) ELSE j
Spaces(s, j) == IF j > 0 /\ IsSpace(Tok(s, j)) THEN SkipSpaces(s, j) ELSE 0

\* /([a-zA-Z\d])((Jan|...|Dec)\s?\d{1,2},\s?\d{2})/ matches with its second
\* group starting at position i
GluedDateAt(s, i) ==
  /\ i >= 2 /\ EndsAlnum(s[i - 1]) /\ IsMonth(Tok(s, i))
  /\ \E j \in OptSpace(s, i + 1) :
       /\ DayComma(s, j) > 0
       /\ \E k \in OptSpace(s, DayComma(s, j)) : Year(s, k) > 0

\* .replace(/([a-zA-Z\d])((Jan|...|Dec)\s?\d{1,2},\s?\d{2})/, '$1 $2'): the
\* first match only
RECURSIVE SeparateGluedDate(_, _)
SeparateGluedDate(s, i) ==
  IF i > Len(s) THEN s
  ELSE IF GluedDateAt(s, i)
    THEN SubSeq(s, 1, i - 1) \o << " " >> \o SubSeq(s, i, Len(s))
    ELSE SeparateGluedDate(s, i + 1)

\* /\b(Jan|...|Dec)\s+\d{1,2},\s+\d{2}\b/gi matches from position i: the
\* position after the match, 0 if no match
SpacedDateEnd(s, i) ==
  IF /\ IsMonthIgnoreCase(Tok(s, i))
     /\ (i = 1 \/ ~IsWord(s[i - 1]))
  THEN LET a == Spaces(s, i + 1)
           b == IF a > 0 THEN DayComma(s, a) ELSE 0
           c == Spaces(s, b)
           d == Year(s, c)
       IN IF d > 0 /\ ~IsWord(Tok(s, d)) THEN d ELSE 0
  ELSE 0

\* .replace(/\b(Jan|...|Dec)\s+\d{1,2},\s+\d{2}\b/gi, ''): every match
RECURSIVE RemoveSpacedDates(_, _)
RemoveSpacedDates(s, i) ==
  IF i > Len(s) THEN <<>>
  ELSE IF SpacedDateEnd(s, i) > 0 THEN RemoveSpacedDates(s, SpacedDateEnd(s, i))
  ELSE << s[i] >> \o RemoveSpacedDates(s, i + 1)

\* .replace(/•.*/g, ''): the bullet and all that follows it
RECURSIVE DropFromBullet(_)
DropFromBullet(s) ==
  IF s = <<>> \/ Head(s) = Bullet THEN <<>>
  ELSE << Head(s) >> \o DropFromBullet(Tail(s))

\* .replace(/([a-z])([A-Z])/g, '$1 $2')
RECURSIVE SplitCamelCase(_)
SplitCamelCase(s) ==
  IF Len(s) < 2 THEN s
  ELSE IF EndsLower(s[1]) /\ StartsUpper(s[2])
    THEN << s[1], " " >> \o SplitCamelCase(Tail(s))
    ELSE << s[1] >> \o SplitCamelCase(Tail(s))

\* .replace(/\s{2,}/g, ' ')
RECURSIVE CollapseSpaces(_)
CollapseSpaces(s) ==
  IF Len(s) < 2 THEN s
  ELSE IF IsSpace(s[1]) /\ IsSpace(s[2]) THEN CollapseSpaces(Tail(s))
  ELSE << s[1] >> \o CollapseSpaces(Tail(s))

\* .trim()
RECURSIVE TrimStart(_)
TrimStart(s) == IF s # <<>> /\ IsSpace(Head(s)) THEN TrimStart(Tail(s)) ELSE s
RECURSIVE TrimEnd(_)
TrimEnd(s) ==
  IF s # <<>> /\ IsSpace(s[Len(s)]) THEN TrimEnd(SubSeq(s, 1, Len(s) - 1)) ELSE s
Trim(s) == TrimEnd(TrimStart(s))

\* (mutant: the second replace is left out)
cleanMovieTitleKeepsDates(rawTitle) ==
  Trim(CollapseSpaces(SplitCamelCase(DropFromBullet(SeparateGluedDate(rawTitle, 1)))))
cleanMovieTitle(rawTitle) ==
  Trim(CollapseSpaces(SplitCamelCase(DropFromBullet(
    RemoveSpacedDates(SeparateGluedDate(rawTitle, 1), 1)))))

\* the pieces raw titles are made of: letters, a word, a space, a bullet, and
\* the date label the listing attaches, as the site writes it, in capitals,
\* and without its spaces
SiteDate == << "Nov", " ", "5", ",", " ", "2", "4" >>
TitlePieces ==
  { << "x" >>, << "X" >>, << " " >>, << Bullet >>, << "Interstellar" >>,
    SiteDate,
    << "NOV", " ", "5", ",", " ", "2", "4" >>,
    << "Nov", "5", ",", "2", "4" >> }

PieceLists == UNION { [1..n -> TitlePieces] : n \in 0..MaxPieces }
RawTitleOf(pieces) == Flatten(pieces)

\* const cleanTitle = cleanMovieTitle(movie.title)
CleanTitle ==
  /\ callPc = "title"
  /\ callPc' = "cleaned"
  /\ cleanTitle' = cleanMovieTitle(RawTitleOf(titlePieces))
  /\ UNCHANGED << titlePieces, cleanedAgain >>
  /\ UNCHANGED << mainVars, resolverVars, retryVars, selectVars, exportVars, scraperVars >>

\* the function applied to its own result
CleanAgain ==
  /\ callPc = "cleaned"
  /\ callPc' = "cleanedAgain"
  /\ cleanedAgain' = cleanMovieTitle(cleanTitle)
  /\ UNCHANGED << titlePieces, cleanTitle >>
  /\ UNCHANGED << mainVars, resolverVars, retryVars, selectVars, exportVars, scraperVars >>

(* ------------------------------------------------------------------ *)
(* processMovie: the choice among the embed links                      *)
(* ------------------------------------------------------------------ *)
\* the embed links a watch page can carry
EmbedLinks == { VidFastLink, VidFastMirror, OtherLink }
CandidateLists == UNION { [1..n -> EmbedLinks] : n \in 0..MaxCandidates }

\* the manifest the player behind an embed link requests
StreamOf(link) ==
  IF link = VidFastLink THEN ManifestUrls[1]
  ELSE IF link = VidFastMirror THEN ManifestUrls[2]
  ELSE ManifestUrls[3]

\* await resolveM3U8FromEmbed(browser, link), on a healthy session
ResolveOutcome(link) == IF link \in resolves THEN StreamOf(link) ELSE NULL

\* const vidFastLink = embedLinks.find(...); if (!vidFastLink) return null
SelectFind ==
  /\ callPc = "select"
  /\ IF NoServer(find(candidates))
       THEN callPc' = "selected"
       ELSE callPc' = "resolve"
  /\ UNCHANGED selectVars
  /\ UNCHANGED << mainVars, resolverVars, retryVars, titleVars, exportVars, scraperVars >>

\* const m3u8 = await resolveM3U8FromEmbed(browser, vidFastLink);
\* if (!m3u8) return null
SelectResolve ==
  /\ callPc = "resolve"
  /\ callPc' = IF NoStream(ResolveOutcome(find(candidates))) THEN "selected" ELSE "enrich"
  /\ UNCHANGED selectVars
  /\ UNCHANGED << mainVars, resolverVars, retryVars, titleVars, exportVars, scraperVars >>

\* const tmdbInfo = await fetchTMDBInfo(cleanTitle); return { title, logo,
\* group, streamUrl: m3u8, description }
SelectEnrich ==
  /\ callPc = "enrich"
  /\ callPc' = "selected"
  /\ selected' = << M3UItem(1, Trending, ResolveOutcome(find(candidates)), tmdbResult) >>
  /\ UNCHANGED << candidates, resolves, tmdbResult >>
  /\ UNCHANGED << mainVars, resolverVars, retryVars, titleVars, exportVars, scraperVars >>

(* ------------------------------------------------------------------ *)
(* exportToM3U: the playlist text                                      *)
(* ------------------------------------------------------------------ *)
\* The text is a sequence of lines and a line a sequence of tokens: the
\* literal pieces of the template strings and the interpolated values, an
\* empty value contributing no token.
Text(str) == IF str = "" THEN <<>> ELSE << str >>

\* the entries a run can accumulate: with and without a poster, a
\* description, a title, a group
ExportEntries ==
  { [title |-> "Dune", logo |-> "https://img.example/1.jpg", group |-> Trending,
     streamUrl |-> ManifestUrls[1], description |-> ""],
    [title |-> "Alien", logo |-> "https://img.example/2.jpg", group |-> "Horror",
     streamUrl |-> ManifestUrls[2], description |-> "1979"],
    [title |-> "", logo |-> "", group |-> "Horror",
     streamUrl |-> ManifestUrls[3], description |-> ""],
    [title |-> "Heat", logo |-> "", group |-> "Action",
     streamUrl |-> SignedManifestUrl, description |-> ""],
    [title |-> "Solo", logo |-> "https://img.example/5.jpg", group |-> "",
     streamUrl |-> ManifestUrls[1], description |-> ""] }

ItemLists == UNION { [1..n -> ExportEntries] : n \in 0..MaxEntries }

\* the orders in which the entries of a list can have been accumulated
Orderings(n) == { f \in [1..n -> 1..n] : \A i, j \in 1..n : f[i] = f[j] => i = j }

\* a.localeCompare(b) on the names used here: the position in the collation
\* order, the empty string first
Collation ==
  << "" >> \o SelectSeq(AllGenres, LAMBDA g : g \in {"Action", "Adventure", "Horror"})
    \o << Trending >> \o SelectSeq(AllGenres, LAMBDA g : g \in {"War", "Western"})
CollationIndex(a) == CHOOSE i \in 1..Len(Collation) : Collation[i] = a
localeCompare(a, b) ==
  IF a = b THEN 0 ELSE IF CollationIndex(a) < CollationIndex(b) THEN -1 ELSE 1

\* Object.keys(acc) after the reduce: the groups in order of first occurrence
RECURSIVE ObjectKeys(_)
ObjectKeys(its) ==
  IF its = <<>> THEN <<>>
  ELSE LET front == ObjectKeys(SubSeq(its, 1, Len(its) - 1))
           g == its[Len(its)].group
       IN IF g \in Range(front) THEN front ELSE Append(front, g)

RECURSIVE Reverse(_)
Reverse(s) == IF s = <<>> THEN <<>> ELSE Append(Reverse(Tail(s)), Head(s))

\* (mutant: unshift in place of push)
groupItemsByUnshift(its) ==
  [keys |-> ObjectKeys(its),
   lists |-> [g \in Range(ObjectKeys(its)) |->
                Reverse(SelectSeq(its, LAMBDA item : item.group = g))]]
\* items.reduce((acc, item) => { ...; acc[item.group].push(item); return acc }, {})
groupItemsByCategory(its) ==
  [keys |-> ObjectKeys(its),
   lists |-> [g \in Range(ObjectKeys(its)) |->
                SelectSeq(its, LAMBDA item : item.group = g)]]

\* (mutant: the comparator without its two first lines)
compareByLocaleOnly(a, b) == localeCompare(a, b)
\* (a, b) => { if (a === 'Trending Movies') return -1;
\*             if (b === 'Trending Movies') return 1; return a.localeCompare(b) }
compareGroupNames(a, b) ==
  IF a = Trending THEN -1
  ELSE IF b = Trending THEN 1
  ELSE localeCompare(a, b)

\* Array.prototype.sort with that comparator
RECURSIVE InsertSorted(_, _)
InsertSorted(sorted, k) ==
  IF sorted = <<>> THEN << k >>
  ELSE IF compareGroupNames(k, Head(sorted)) < 0 THEN << k >> \o sorted
  ELSE << Head(sorted) >> \o InsertSorted(Tail(sorted), k)
RECURSIVE Sort(_)
Sort(keys) ==
  IF keys = <<>> THEN <<>>
  ELSE InsertSorted(Sort(SubSeq(keys, 1, Len(keys) - 1)), keys[Len(keys)])

\* (mutant: the keys are not sorted)
getGroupNamesUnsorted(groupedItems) == groupedItems.keys
\* Object.keys(groupedItems).sort(...)
getSortedGroupNames(groupedItems) == Sort(groupedItems.keys)

\* `#EXTINF:-1 ${logo}${group}, ${title}${description}`
ExtinfTag == "#EXTINF:-1 "
GroupAttr == "group-title=\""
\* (mutant: the group attribute is left out)
generateExtinfLineNoGroup(item) ==
  << ExtinfTag >>
    \o (IF item.logo # "" THEN << "tvg-logo=\"", item.logo, "\" " >> ELSE <<>>)
    \o << ", " >>
    \o Text(IF item.title # "" THEN item.title ELSE "Unknown Title")
    \o (IF item.description # "" THEN << " - ", item.description >> ELSE <<>>)
generateExtinfLine(item) ==
  << ExtinfTag >>
    \o (IF item.logo # "" THEN << "tvg-logo=\"", item.logo, "\" " >> ELSE <<>>)
    \o (IF item.group # "" THEN << GroupAttr, item.group, "\"" >> ELSE <<>>)
    \o << ", " >>
    \o Text(IF item.title # "" THEN item.title ELSE "Unknown Title")
    \o (IF item.description # "" THEN << " - ", item.description >> ELSE <<>>)

\* (mutant: the banner counts nothing)
ItemCountNone(its) == "0"
\* ${items.length}
ItemCount(its) == ToString(Len(its))

BannerTag == "# "
\* `# ${groupName} (${items.length} items)\n`, then per item
\* `${titleLine}\n${item.streamUrl}\n\n`, then '\n'
generateGroupSection(groupName, its) ==
  << << BannerTag >> \o Text(groupName) \o << " (", ItemCount(its), " items)" >> >>
    \o Flatten([i \in 1..Len(its) |->
                  << generateExtinfLine(its[i]), Text(its[i].streamUrl), <<>> >>])
    \o << <<>> >>

\* content.trim(): the text begins with '#', so the line ends at its end go
RECURSIVE TrimLines(_)
TrimLines(lines) ==
  IF lines # <<>> /\ lines[Len(lines)] = <<>>
    THEN TrimLines(SubSeq(lines, 1, Len(lines) - 1))
    ELSE lines

generateM3UContent(its) ==
  LET groupedItems == groupItemsByCategory(its)
      sortedGroups == getSortedGroupNames(groupedItems)
  IN TrimLines(<< << "#EXTM3U" >>, <<>> >>
       \o Flatten([i \in 1..Len(sortedGroups) |->
            generateGroupSection(sortedGroups[i], groupedItems.lists[sortedGroups[i]])]))

\* reading the text back: an entry per #EXTINF line, its group the value of
\* the group-title attribute, its title the text after the attribute list, its
\* stream URL the next line
IsExtinf(line) == line # <<>> /\ line[1] = ExtinfTag
IsBanner(line) == line # <<>> /\ line[1] = BannerTag
ExtinfLines(lines) == { i \in 1..Len(lines) : IsExtinf(lines[i]) }
GroupTitle(line) ==
  IF \E k \in 1..Len(line) : line[k] = GroupAttr
    THEN line[(CHOOSE k \in 1..Len(line) : line[k] = GroupAttr) + 1]
    ELSE ""
AfterAttributes(line) ==
  LET k == CHOOSE j \in 1..Len(line) : line[j] = ", " /\ \A h \in 1..(j - 1) : line[h] # ", "
  IN SubSeq(line, k + 1, Len(line))
ParseEntry(lines, i) ==
  [title |-> AfterAttributes(lines[i]),
   group |-> GroupTitle(lines[i]),
   streamUrl |-> IF i < Len(lines) THEN lines[i + 1] ELSE <<>>]
RECURSIVE ParseFrom(_, _)
ParseFrom(lines, i) ==
  IF i > Len(lines) THEN <<>>
  ELSE IF IsExtinf(lines[i]) THEN << ParseEntry(lines, i) >> \o ParseFrom(lines, i + 1)
  ELSE ParseFrom(lines, i + 1)
ParseM3U(lines) == ParseFrom(lines, 1)

\* const content = generateM3UContent(items)
GenerateContent ==
  /\ callPc = "export"
  /\ callPc' = "exported"
  /\ content' = generateM3UContent(exportItems)
  /\ UNCHANGED << exportItems, arrival, arrivalContent, parsed >>
  /\ UNCHANGED << mainVars, resolverVars, retryVars, titleVars, selectVars, scraperVars >>

\* the same call on the other accumulation order
GenerateArrivalContent ==
  /\ callPc = "exported"
  /\ callPc' = "exportedBoth"
  /\ arrivalContent' = generateM3UContent(arrival)
  /\ UNCHANGED << exportItems, arrival, content, parsed >>
  /\ UNCHANGED << mainVars, resolverVars, retryVars, titleVars, selectVars, scraperVars >>

\* the written text is read back
ParseContent ==
  /\ callPc = "exportedBoth"
  /\ callPc' = "parsed"
  /\ parsed' = ParseM3U(content)
  /\ UNCHANGED << exportItems, arrival, content, arrivalContent >>
  /\ UNCHANGED << mainVars, resolverVars, retryVars, titleVars, selectVars, scraperVars >>

(* ------------------------------------------------------------------ *)
(* getTrendingMoviesPuppeteer / extractMovies, step by step            *)
(* ------------------------------------------------------------------ *)
\* const cardSelectors = [...]
cardSelectors == << "a.movieCard", ".movie-card", "[href*=\"/movie/\"]", ".card" >>
Markups == Range(cardSelectors) \cup {"none"}

\* an item node with no parseable id in its link (or whose extraction fails),
\* and the ids the links of the other nodes carry
NoId == 0
CardIds == 1..MaxTail
\* the pages explored: a run of nodes without id, then any few nodes
Leading(n) == [i \in 1..n |-> NoId]
Tails == UNION { [1..k -> {NoId} \cup CardIds] : k \in 0..MaxTail }
Pages == { Leading(n) \o t : n \in 0..MaxLeading, t \in Tails }

\* the selector matches the page's item nodes: a.movieCard nodes are links to
\* /movie/<id> and so also answer to [href*="/movie/"]
Matches(selector, m) ==
  \/ selector = m
  \/ m = cardSelectors[1] /\ selector = cardSelectors[3]
\* await page.$$(selector)
Query(selector) == IF Matches(selector, markup) THEN cardNodes ELSE <<>>

\* for (const selector of cardSelectors) { try { await page.waitForSelector(
\* selector); cards = await page.$$(selector); if (cards.length > 0) break }
\* catch { } }: the nodes of the first selector that matches any
RECURSIVE FirstMatch(_)
FirstMatch(selectors) ==
  IF selectors = <<>> THEN <<>>
  ELSE IF Query(Head(selectors)) # <<>> THEN Query(Head(selectors))
  ELSE FirstMatch(Tail(selectors))

\* Math.min(cards.length, limit + 10)
Examined(n, lim) == Min(n, lim + ExtraCards)

DiscoverRunning == discoverPc \notin {"idle", "returned", "thrown"}

DiscoverStep(p, cs, i, ms, res) ==
  /\ discoverPc' = p
  /\ cards' = cs
  /\ cardIndex' = i
  /\ collected' = ms
  /\ discoverResult' = res
  /\ UNCHANGED << discoverBrowser, markup, cardNodes, limit >>
  /\ UNCHANGED << mainVars, resolverVars, retryVars, callPc, titleVars, selectVars,
                  exportVars, vidfastVars >>

\* a return inside the try block, or the catch block's `return []`: the
\* finally block awaits closePage(page)
DiscoverReturn(ms) == DiscoverStep("closePage", cards, cardIndex, collected, ms)

\* head of `for (let i = 0; i < Math.min(cards.length, limit + 10); i++)`
DiscoverLoop(cs, i, ms) ==
  IF i < Examined(Len(cs), limit)
    THEN DiscoverStep("card", cs, i, ms, discoverResult)
    ELSE DiscoverStep("closePage", cs, i, ms, ms)

\* const page = await browser.newPage(), before the try block: a failure
\* rejects the call
DiscoverPage ==
  /\ discoverPc = "newPage"
  /\ IF discoverBrowser = "crashed"
       THEN DiscoverStep("thrown", cards, cardIndex, collected, discoverResult)
       ELSE DiscoverStep("setupPage", cards, cardIndex, collected, discoverResult)

\* await setupPage(page): page.setRequestInterception(true)
DiscoverSetup ==
  /\ discoverPc = "setupPage"
  /\ IF discoverBrowser = "crashed"
       THEN DiscoverReturn(<<>>)
       ELSE DiscoverStep("goto", cards, cardIndex, collected, discoverResult)

\* await page.goto(targetUrl, ...) fulfils or throws; selectGenre catches its
\* own errors and stabilizeContent is a timer
DiscoverGoto ==
  /\ discoverPc = "goto"
  /\ \/ /\ discoverBrowser = "open"
        /\ DiscoverStep("selectors", cards, cardIndex, collected, discoverResult)
     \/ DiscoverReturn(<<>>)

\* extractMovies: the loop over cardSelectors, every failure caught;
\* if (cards.length === 0) return []
DiscoverSelectors ==
  /\ discoverPc = "selectors"
  /\ LET cs == IF discoverBrowser = "open" THEN FirstMatch(cardSelectors) ELSE <<>>
     IN IF cs = <<>>
          THEN DiscoverStep("closePage", cs, cardIndex, collected, <<>>)
          ELSE DiscoverStep("scroll", cs, cardIndex, collected, discoverResult)

\* await scrollToLoadMore(page, pageType): every failure caught
DiscoverScroll ==
  /\ discoverPc = "scroll"
  /\ DiscoverStep("requery", cards, cardIndex, collected, discoverResult)

\* cards = await page.$$('a.movieCard'); const movies = []; the loop starts
DiscoverRequery ==
  /\ discoverPc = "requery"
  /\ IF discoverBrowser = "crashed"
       THEN DiscoverReturn(<<>>)
       ELSE DiscoverLoop(Query(cardSelectors[1]), 0, <<>>)

\* one iteration: extractCardData(card, page) returns null on any failure;
\* if (cardData && cardData.id) { movies.push(cardData);
\* if (movies.length >= limit) break }
DiscoverCard ==
  /\ discoverPc = "card"
  /\ LET id == IF discoverBrowser = "open" THEN cards[cardIndex + 1] ELSE NoId
     IN IF id # NoId
          THEN IF Len(collected) + 1 >= limit
                 THEN DiscoverStep("closePage", cards, cardIndex, Append(collected, id),
                                   Append(collected, id))
                 ELSE DiscoverLoop(cards, cardIndex + 1, Append(collected, id))
          ELSE DiscoverLoop(cards, cardIndex + 1, collected)

\* finally { await closePage(page) }: every failure caught; then the return
DiscoverClosePage ==
  /\ discoverPc = "closePage"
  /\ DiscoverStep("returned", cards, cardIndex, collected, discoverResult)

\* the browser session becomes unusable during the call
DiscoverCrash ==
  /\ DiscoverRunning
  /\ discoverBrowser = "open"
  /\ discoverBrowser' = "crashed"
  /\ UNCHANGED << discoverPc, markup, cardNodes, limit, cards, cardIndex, collected,
                  discoverResult >>
  /\ UNCHANGED << mainVars, resolverVars, retryVars, callPc, titleVars, selectVars,
                  exportVars, vidfastVars >>

(* ------------------------------------------------------------------ *)
(* getM3U8FromVidFast (vidfast-scraper.ts), step by step               *)
(* ------------------------------------------------------------------ *)
\* const playSelectors = [...]
playSelectors ==
  << "button[class*=\"play\"]", ".play-button", ".video-play-button",
     "button[aria-label*=\"play\"]", "[data-testid*=\"play\"]",
     ".vjs-big-play-button", ".plyr__control--overlaid" >>
\* page.mouse.click(400, 300) and page.click('video'), as entries of `clicks`
MouseClick == "mouse.click(400, 300)"
VideoClick == "video"

VidfastRunning == vidfastPc \notin {"idle", "returned"}

VidfastStep(p, i, cl, res) ==
  /\ vidfastPc' = p
  /\ selectorIndex' = i
  /\ clicks' = cl
  /\ vidfastResult' = res
  /\ UNCHANGED << playControls, videoElement, vidfastUrl >>
  /\ UNCHANGED << mainVars, resolverVars, retryVars, callPc, titleVars, selectVars,
                  exportVars, discoverVars >>

\* await page.goto(vidFastUrl, { ..., timeout: 15000 }) fulfils,
\* or throws into the outer catch and the finally block
VidfastGoto ==
  /\ vidfastPc = "goto"
  /\ \/ VidfastStep("loadWait", selectorIndex, clicks, vidfastResult)
     \/ VidfastStep("close", selectorIndex, clicks, vidfastResult)

\* await new Promise(resolve => setTimeout(resolve, 3000)); the loop starts
VidfastLoadWait ==
  /\ vidfastPc = "loadWait"
  /\ VidfastStep("selectors", 1, clicks, vidfastResult)

\* one iteration of `for (const selector of playSelectors)`:
\* try { waitForSelector; click; break } catch (e) { continue }; playControls
\* holds the selectors that are found and can be clicked.  The loop's body
\* lets no exception out, so the catch block around the loop, with its
\* page.mouse.click(400, 300), is never entered.
VidfastSelector ==
  /\ vidfastPc = "selectors"
  /\ LET selector == playSelectors[selectorIndex]
     IN IF selector \in playControls
          THEN VidfastStep("manifestWait", selectorIndex, Append(clicks, selector),
                           vidfastResult)
          ELSE IF selectorIndex < Len(playSelectors)
                 THEN VidfastStep("selectors", selectorIndex + 1, clicks, vidfastResult)
                 ELSE VidfastStep("manifestWait", selectorIndex, clicks, vidfastResult)

\* await new Promise(resolve => setTimeout(resolve, 5000)); if (!m3u8Url) {
\* await page.evaluate(scroll); wait 2000 ... }
VidfastManifestWait ==
  /\ vidfastPc = "manifestWait"
  /\ IF vidfastUrl = NULL
       THEN VidfastStep("videoClick", selectorIndex, clicks, vidfastResult)
       ELSE VidfastStep("close", selectorIndex, clicks, vidfastResult)

\* try { await page.click('video') } catch (e) { }
VidfastVideoClick ==
  /\ vidfastPc = "videoClick"
  /\ VidfastStep("finalWait", selectorIndex,
                 IF videoElement THEN Append(clicks, VideoClick) ELSE clicks,
                 vidfastResult)

\* await new Promise(resolve => setTimeout(resolve, 3000))
VidfastFinalWait ==
  /\ vidfastPc = "finalWait"
  /\ VidfastStep("close", selectorIndex, clicks, vidfastResult)

\* finally { await page.close() }; return m3u8Url
VidfastClose ==
  /\ vidfastPc = "close"
  /\ VidfastStep("returned", selectorIndex, clicks, vidfastUrl)

\* page.on('request'): if (url.includes('.m3u8')) m3u8Url = url, for every
\* manifest request the page issues while it is open
VidfastRequest ==
  /\ VidfastRunning
  /\ \E u \in Range(ManifestUrls) :
       /\ u # vidfastUrl
       /\ vidfastUrl' = u
  /\ UNCHANGED << vidfastPc, playControls, videoElement, selectorIndex, clicks,
                  vidfastResult >>
  /\ UNCHANGED << mainVars, resolverVars, retryVars, callPc, titleVars, selectVars,
                  exportVars, discoverVars >>

(* ------------------------------------------------------------------ *)
(* Specification                                                       *)
(* ------------------------------------------------------------------ *)
\* the steps of one category and of the operations it started
CategoryNext ==
  \/ \E c \in Cats : CatLaunch(c)
  \/ \E c \in Cats : CatClose(c)
  \/ \E c \in Cats : SessionCrash(c)
  \/ \E o \in ops : DiscoverNewPage(o)
  \/ \E o \in ops : DiscoverScrape(o)
  \/ \E o \in ops : MovieExtract(o)
  \/ \E o \in ops : MovieResolve(o)
  \/ \E o \in ops : MovieEnrich(o)
  \/ \E o \in ops : Timeout(o)

Next ==
  \/ MainStart
  \/ ChunkDelay
  \/ CategoryNext

Spec == Init /\ [][Next]_vars

\* one chunk of one genre: the delay between chunks never runs
NextCategory ==
  \/ MainStart
  \/ CategoryNext

SpecCategory == InitCategory /\ [][NextCategory]_vars

\* one chunk of several genres running concurrently with the trending category
InitOrder ==
  /\ genres = SubSeq(AllGenres, 1, Min(OrderGenres, PARALLEL_GENRES))
  /\ limits = AnySite(OrderMovies, OrderFaults)
  /\ Start

SpecOrder == InitOrder /\ [][NextCategory]_vars

\* one chunk of one genre on a long listing: the periodic refresh runs
NextRefresh ==
  \/ MainStart
  \/ CategoryNext
  \/ \E g \in Cats : GenreRefreshClose(g)
  \/ \E g \in Cats : GenreRefreshLaunch(g)
  \/ \E g \in Cats : GenreRefreshDelay(g)

SpecRefresh == InitRefresh /\ [][NextRefresh]_vars

\* one call of resolveM3U8FromEmbed on an open session, main() not started
InitResolver ==
  /\ genres = <<>>
  /\ limits = AnySite(0, 0)
  /\ MainStartState
  /\ HarnessIdle
  /\ resolvePc = "newPage"
  /\ resolveBrowser = "open"
  /\ handler = FALSE
  /\ m3u8Url = NULL
  /\ resolveResult = NULL
  /\ resolveSteps = 0
  /\ requests = 0
  /\ matched = <<>>
  /\ navFailed = FALSE
  /\ clickFailed = FALSE

\* the resolver's own steps: each is the completion of a protocol call bounded
\* by protocolTimeout, of a navigation bounded by its timeout, or of a timer
ResolveStep ==
  \/ ResolveNewPage
  \/ ResolveSetInterception
  \/ ResolveGoto
  \/ ResolveLoadWait
  \/ ResolveClick
  \/ ResolveInteractionWait
  \/ ResolveClose

NextResolver ==
  \/ ResolveStep
  \/ \E url \in RequestUrls : ResolveRequest(url)
  \/ ResolveCrash

SpecResolver == InitResolver /\ [][NextResolver]_vars

\* the same, with every enabled step of the resolver eventually completing
SpecResolverLive == SpecResolver /\ WF_vars(ResolveStep)

\* one call of the retrying resolveM3U8FromEmbed on an open session
InitRetry ==
  /\ genres = <<>>
  /\ limits = AnySite(0, 0)
  /\ MainStartState
  /\ ResolverIdle
  /\ callPc = "idle" /\ TitleIdle /\ SelectIdle /\ ExportIdle /\ ScraperIdle
  /\ retryPc = "newPage"
  /\ retryBrowser = "open"
  /\ attempt = 0
  /\ retryUrl = NULL
  /\ retryListening = FALSE
  /\ retryResult = NULL
  /\ attemptLog = <<>>

NextRetry ==
  \/ RetryNewPage
  \/ RetryGoto
  \/ RetryLoadWait
  \/ RetryClick
  \/ RetryInteractionWait
  \/ RetryClose
  \/ \E url \in RequestUrls : RetryRequest(url)
  \/ RetryCrash

SpecRetry == InitRetry /\ [][NextRetry]_vars

\* cleanMovieTitle applied to a raw title, and again to its result
InitTitle ==
  /\ genres = <<>>
  /\ limits = AnySite(0, 0)
  /\ MainStartState
  /\ ResolverIdle
  /\ RetryIdle /\ SelectIdle /\ ExportIdle /\ ScraperIdle
  /\ callPc = "title"
  /\ titlePieces \in PieceLists
  /\ cleanTitle = NULL
  /\ cleanedAgain = NULL

NextTitle ==
  \/ CleanTitle
  \/ CleanAgain

SpecTitle == InitTitle /\ [][NextTitle]_vars

\* processMovie on a watch page with any embed links, any of which may resolve
InitSelect ==
  /\ genres = <<>>
  /\ limits = AnySite(0, 0)
  /\ MainStartState
  /\ ResolverIdle
  /\ RetryIdle /\ TitleIdle /\ ExportIdle /\ ScraperIdle
  /\ callPc = "select"
  /\ candidates \in CandidateLists
  /\ resolves \in SUBSET EmbedLinks
  /\ tmdbResult \in TmdbResults
  /\ selected = <<>>

NextSelect ==
  \/ SelectFind
  \/ SelectResolve
  \/ SelectEnrich

SpecSelect == InitSelect /\ [][NextSelect]_vars

\* generateM3UContent on any accumulated list and on a reordering of it
InitExport ==
  /\ genres = <<>>
  /\ limits = AnySite(0, 0)
  /\ MainStartState
  /\ ResolverIdle
  /\ RetryIdle /\ TitleIdle /\ SelectIdle /\ ScraperIdle
  /\ callPc = "export"
  /\ exportItems \in ItemLists
  /\ \E f \in Orderings(Len(exportItems)) :
       arrival = [i \in 1..Len(exportItems) |-> exportItems[f[i]]]
  /\ content = NULL
  /\ arrivalContent = NULL
  /\ parsed = NULL

NextExport ==
  \/ GenerateContent
  \/ GenerateArrivalContent
  \/ ParseContent

SpecExport == InitExport /\ [][NextExport]_vars

\* one call of getTrendingMoviesPuppeteer on an open session, on any page
InitDiscover ==
  /\ genres = <<>>
  /\ limits = AnySite(0, 0)
  /\ MainStartState
  /\ ResolverIdle
  /\ RetryIdle /\ callPc = "idle" /\ TitleIdle /\ SelectIdle /\ ExportIdle
  /\ VidfastIdle
  /\ discoverPc = "newPage"
  /\ discoverBrowser = "open"
  /\ markup \in Markups
  /\ cardNodes \in Pages
  /\ limit \in 1..MaxLimit
  /\ cards = <<>>
  /\ cardIndex = 0
  /\ collected = <<>>
  /\ discoverResult = NULL

NextDiscover ==
  \/ DiscoverPage
  \/ DiscoverSetup
  \/ DiscoverGoto
  \/ DiscoverSelectors
  \/ DiscoverScroll
  \/ DiscoverRequery
  \/ DiscoverCard
  \/ DiscoverClosePage
  \/ DiscoverCrash

SpecDiscover == InitDiscover /\ [][NextDiscover]_vars

\* one call of getM3U8FromVidFast on any player page
InitVidfast ==
  /\ genres = <<>>
  /\ limits = AnySite(0, 0)
  /\ MainStartState
  /\ ResolverIdle
  /\ RetryIdle /\ callPc = "idle" /\ TitleIdle /\ SelectIdle /\ ExportIdle
  /\ DiscoverIdle
  /\ vidfastPc = "goto"
  /\ playControls \in SUBSET Range(playSelectors)
  /\ videoElement \in BOOLEAN
  /\ selectorIndex = 0
  /\ clicks = <<>>
  /\ vidfastUrl = NULL
  /\ vidfastResult = NULL

NextVidfast ==
  \/ VidfastGoto
  \/ VidfastLoadWait
  \/ VidfastSelector
  \/ VidfastManifestWait
  \/ VidfastVideoClick
  \/ VidfastFinalWait
  \/ VidfastClose
  \/ VidfastRequest

SpecVidfast == InitVidfast /\ [][NextVidfast]_vars

(* ================================================================== *)
(* Properties                                                          *)
(* ================================================================== *)
\* every accumulation list of the run, and the entries in them
AllLists == { items[c] : c \in Cats } \cup {allGenreItems} \cup Range(file)
Entries == UNION { Range(l) : l \in AllLists }
Dispatched == {Trending} \cup Range(genres)

\* C1: an item whose embed extraction returned no candidate of the selected
\* provider (none at all included) makes processMovie return null, so it
\* never goes on to stream resolution and no entry for it is in any
\* accumulation list.
C1_NoProviderNoEntry ==
  /\ \A e \in Entries : <<e.group, e.src>> \notin noProvider
  /\ \A o \in ops : (o.kind = "movie" /\ o.stage \in {"resolve", "enrich"})
                      => <<o.cat, o.item>> \notin noProvider

\* a category returned with an entry and with an item dropped for want of a provider
C1_Witness ==
  \E c \in Cats : /\ pc[c] = "done" /\ Len(items[c]) >= 1
                  /\ \E k \in 1..movies[c] : <<c, k>> \in noProvider

\* C2: in every reachable state every entry of every accumulation list has a
\* non-empty streamUrl, and that URL was returned by a stream resolution for
\* the entry's source item.
C2_EntryHasResolvedStream ==
  \A e \in Entries : /\ e.streamUrl \notin {NULL, ""}
                     /\ <<e.group, e.src, e.streamUrl>> \in resolved

\* the export was written with two entries
C2_Witness == file # <<>> /\ Len(file[1]) >= 2

\* C3: when a category has returned, its entries are exactly the items that
\* resolved to a stream and whose timer did not fire, one entry each, in item
\* order, with the resolved URL; the written export holds the same entries
\* for that group.
Kept(c) == { <<t[2], t[3]>> : t \in { r \in resolved : r[1] = c /\ <<r[1], r[2]>> \notin timedOut } }
OfGroup(list, c) == SelectSeq(list, LAMBDA e : e.group = c)
C3_ExactlyResolvedItems ==
  \A c \in Cats :
    pc[c] = "done" =>
      /\ { <<e.src, e.streamUrl>> : e \in Range(items[c]) } = Kept(c)
      /\ Len(items[c]) = Cardinality(Kept(c))
      /\ \A j \in 1..Len(items[c]) :
           /\ items[c][j].group = c
           /\ \A k \in 1..Len(items[c]) : j < k => items[c][j].src < items[c][k].src
      /\ file # <<>> => OfGroup(file[1], c) = items[c]

\* the scenario of the spec: three items, A without provider, B resolved, C
\* timed out, and the export holds exactly B for the genre
C3_Witness ==
  /\ file # <<>>
  /\ movies["Horror"] = 3
  /\ <<"Horror", 1>> \in noProvider
  /\ <<"Horror", 3>> \in timedOut
  /\ Len(OfGroup(file[1], "Horror")) = 1
  /\ OfGroup(file[1], "Horror")[1].src = 2
  /\ OfGroup(file[1], "Horror")[1].streamUrl = "https://cdn.example/b.m3u8"

\* C4 (as claimed): when the run ends after some category failed, every other
\* category has run to its end and every entry the others accumulated is in
\* the written export.
C4_SiblingsSurviveFailure ==
  (mainPc = "exit" /\ outcome # "exportFailed") =>
    \A c \in Dispatched : pc[c] = "rejected" =>
      \A d \in Dispatched \ {c} :
        /\ Settled(pc[d])
        /\ \A e \in Range(items[d]) : file # <<>> /\ e \in Range(file[1])

\* C5: once the timer of an item's withTimeout has fired, the category has
\* moved past the item, no longer waits for its operation, and no entry for
\* the item is in any accumulation list, whatever the abandoned operation
\* does afterwards.
C5_TimedOutItemSkipped ==
  \A t \in timedOut : t[2] >= 1 =>
    /\ idx[t[1]] >= t[2]
    /\ \A o \in ops : (o.cat = t[1] /\ o.item = t[2]) => Abandoned(o)
    /\ \A e \in Entries : ~(e.group = t[1] /\ e.src = t[2])

\* an operation abandoned during extraction has since resolved a stream,
\* while its category processes the next item
C5_Witness ==
  \E o \in ops : /\ o.kind = "movie" /\ o.firedAt = "extract" /\ o.stage = "enrich"
                 /\ pc[o.cat] = "item" /\ idx[o.cat] = o.item

\* C6: exportToM3U is invoked only after the trending category and every
\* genre category of every chunk have settled and processAllGenres has
\* returned; nothing is written while the run is still awaiting.
C6_ExportAfterBarrier ==
  /\ outcome \in {"exported", "exportFailed"} =>
       /\ agPc = "done"
       /\ \A c \in Dispatched : Settled(pc[c])
  /\ file # <<>> => (outcome = "exported" /\ mainPc = "exit")

\* the export was written after a genre of the last chunk had rejected
C6_Witness ==
  /\ outcome = "exported"
  /\ \E g \in ChunkSet(NumChunks) : pc[g] = "rejected"

\* C7 (as claimed): no genre category starts discovery or item processing
\* until the trending category has finished.
C7_TrendingFinishedFirst ==
  \A g \in Range(genres) : pc[g] \notin {"idle", "launch"} => Settled(pc[Trending])

\* C7 (amended): the trending category is started first and runs concurrently
\* with the genre chunks: no genre category is started before
\* processTrendingMovies has been.
C7_TrendingStartedFirst ==
  \A g \in Range(genres) : pc[g] # "idle" => pc[Trending] # "idle"

\* a genre processes an item while the trending category is still discovering
C7_Witness ==
  \E g \in Range(genres) : pc[g] = "item" /\ pc[Trending] = "discover"

\* sessions that were launched and that nobody has yet asked to close
LiveSessions ==
  UNION { { <<c, k>> : k \in { j \in DOMAIN sess[c] : sess[c][j] \in {"open", "crashed"} } }
          : c \in Cats }

UsesSession(o) == o.stage \in {"newPage", "scrape", "extract", "resolve"}
C9_ExclusiveSession ==
  \A o1 \in ops : \A o2 \in ops :
    (o1 # o2 /\ o1.cat = o2.cat /\ o1.s = o2.s) => ~(UsesSession(o1) /\ UsesSession(o2))

ItemsOn(c, s) ==
  LET upto == IF s < Len(launchedAt[c]) THEN launchedAt[c][s + 1]
              ELSE idx[c] + (IF pc[c] = "item" THEN 1 ELSE 0)
  IN upto - launchedAt[c][s]

\* C11 (as claimed): in every category, the trending one included, no session
\* is given more than BROWSER_REFRESH_INTERVAL items: every item operation runs
\* on a session launched fewer than BROWSER_REFRESH_INTERVAL items before it.
C11_SessionItemCeiling ==
  /\ \A c \in Cats : \A s \in DOMAIN launchedAt[c] :
        ItemsOn(c, s) <= BROWSER_REFRESH_INTERVAL
  /\ \A o \in ops : o.kind = "movie" =>
        o.item - launchedAt[o.cat][o.s] <= BROWSER_REFRESH_INTERVAL

\* C12: once a refresh of a genre has begun, the entries accumulated before it
\* stay the head of the genre's list, unchanged, and the genre never rejects:
\* it returns a list that starts with them, also when the close of the old
\* session or the launch of the new one throws.
IsPrefix(a, b) == Len(a) <= Len(b) /\ SubSeq(b, 1, Len(a)) = a
C12_RefreshKeepsItems ==
  \A g \in Cats : refreshed[g] # <<>> =>
    /\ IsPrefix(refreshed[g][1], items[g])
    /\ pc[g] # "rejected"
    /\ (pc[g] = "done" /\ g \in ChunkSet(chunk) /\ agPc = "done")
          => \A e \in Range(refreshed[g][1]) : e \in Range(allGenreItems)

\* a genre returned its ten entries after the launch of the replacement
\* session threw
C12_Witness ==
  \E g \in Cats : /\ pc[g] = "done"
                  /\ refreshed[g] # <<>> /\ Len(refreshed[g][1]) = BROWSER_REFRESH_INTERVAL
                  /\ launchFailures[g] = 1
                  /\ Len(items[g]) = BROWSER_REFRESH_INTERVAL

\* C13 (as claimed): a step in which an item's processing fails on a crashed
\* session (not because its timer fired) starts no item on that session: the
\* next item of the category runs on a fresh one.
C13_CrashRecycles ==
  [][\A o \in ops :
       (/\ o.kind = "movie" /\ ~Abandoned(o) /\ o.stage \in {"extract", "resolve"}
        /\ sess[o.cat][o.s] = "crashed"
        /\ o \notin ops' /\ timedOut' = timedOut)
       => \A n \in ops' \ ops : n.cat = o.cat => n.s # o.s]_vars

\* C14 (as claimed): a category is aborted by a createBrowser() that threw only
\* after a second createBrowser() threw too.
C14_LaunchRetriedOnce ==
  \A c \in Cats : (pc[c] = "rejected" /\ sess[c] = <<>>) => launchFailures[c] = 2

\* C15: when main() has left its try block with no error caught, the file was
\* written if and only if the accumulated list was non-empty, with exactly
\* that list; with an empty list nothing was written and the outcome is the
\* logged no-op.
C15_ExportIffNonEmpty ==
  (mainPc = "exit" /\ outcome \notin {"caught", "exportFailed"}) =>
    LET allItems == AllItems(items[Trending], allGenreItems)
    IN /\ (file # <<>>) <=> (Len(allItems) > 0)
       /\ file # <<>> => (file[1] = allItems /\ outcome = "exported")
       /\ Len(allItems) = 0 => (outcome = "noop" /\ file = <<>>)

\* cards were discovered, none gave an entry, and the run ended with the no-op
C15_Witness == mainPc = "exit" /\ outcome = "noop" /\ served >= 1 /\ file = <<>>

\* C16 (as claimed): when the run ends in the catch block of main(), the
\* entries accumulated so far have been written.
C16_ExportOnTopLevelError ==
  (mainPc = "exit" /\ outcome = "caught") =>
    \A c \in Cats : \A e \in Range(items[c]) : file # <<>> /\ e \in Range(file[1])

\* C17: a run that has ended has called process.exit(0), whatever failed on the
\* way, and a run that has not ended has not exited.
C17_ExitCodeZero ==
  /\ mainPc = "exit" => exitCode = 0
  /\ mainPc # "exit" => exitCode = NULL

\* the run ended in the catch block after a category had rejected
C17_Witness ==
  /\ mainPc = "exit" /\ outcome = "caught" /\ exitCode = 0
  /\ \E c \in Cats : pc[c] = "rejected"

\* the awaits of one call
ResolveAwaits ==
  Cardinality({"newPage", "setRequestInterception", "goto", "loadWait", "click",
               "interactionWait", "close"})

\* C18 (as claimed): a call during which no request matched ends by returning
\* null, on every path.
C18_ReturnsNullOnEveryPath ==
  <>(matched # <<>> \/ (resolvePc = "returned" /\ resolveResult = NULL))

\* C18 (amended): every call ends after at most seven awaits; it never waits
\* for ever; a call during which no request matched returns null when it
\* returns, also after a failed navigation or click; and a call throws only
\* when its browser session has become unusable (newPage,
\* setRequestInterception or page.close failed).
C18_SettlesBounded ==
  /\ [](resolveSteps <= ResolveAwaits)
  /\ []((resolvePc = "returned" /\ matched = <<>>) => resolveResult = NULL)
  /\ [](resolvePc = "thrown" => resolveBrowser = "crashed")
  /\ <>(resolvePc \in {"returned", "thrown"})

\* null was returned after the navigation failed, with requests seen but none
\* matching
C18_Witness ==
  /\ resolvePc = "returned" /\ resolveResult = NULL
  /\ navFailed /\ requests >= 1 /\ matched = <<>>

\* C19 (as claimed): the URL returned is that of the first matching request
\* observed; later matching requests do not change it.
C19_FirstMatchWins ==
  (resolvePc = "returned" /\ matched # <<>>) => resolveResult = Head(matched)

\* C20 (as claimed): a call whose navigation failed returns null.
C20_NavFailureYieldsNull ==
  (resolvePc = "returned" /\ navFailed) => resolveResult = NULL

(* ------------------------------------------------------------------ *)
(* Title normalization                                                 *)
(* ------------------------------------------------------------------ *)
\* C23: cleanMovieTitle is idempotent: applied to its own result it returns
\* that result unchanged, for every raw title.
C23_Idempotent == callPc = "cleanedAgain" => cleanedAgain = cleanTitle

\* the tokens of a string that are not spaces, in order
NonSpace(s) == SelectSeq(s, LAMBDA t : ~IsSpace(t))
\* a title with no date label and no bullet in it, ending in a word
PlainPieces == { << "x" >>, << "X" >>, << " " >>, << "Interstellar" >> }
IsPlainTitle(pieces) ==
  /\ pieces # <<>>
  /\ \A i \in 1..Len(pieces) : pieces[i] \in PlainPieces
  /\ pieces[Len(pieces)] # << " " >>

\* C24: a date label (month name, day, 2-digit year) concatenated directly
\* onto a title is removed entirely, leaving only the trimmed title:
\* cleanMovieTitle("InterstellarNov 5, 24") = "Interstellar", and likewise for
\* every title that ends in a word: no token of the label is left and the
\* words of the title are kept in order, with no space at either end.
C24_GluedDateRemoved ==
  (/\ callPc \in {"cleaned", "cleanedAgain"}
   /\ titlePieces # <<>>
   /\ titlePieces[Len(titlePieces)] = SiteDate
   /\ IsPlainTitle(SubSeq(titlePieces, 1, Len(titlePieces) - 1)))
  => /\ NonSpace(cleanTitle)
          = NonSpace(Flatten(SubSeq(titlePieces, 1, Len(titlePieces) - 1)))
     /\ cleanTitle = Trim(cleanTitle)
     /\ (titlePieces = << << "Interstellar" >>, SiteDate >>
           => cleanTitle = << "Interstellar" >>)

C24_Witness ==
  /\ callPc = "cleaned"
  /\ titlePieces = << << "Interstellar" >>, SiteDate >>
  /\ cleanTitle = << "Interstellar" >>

(* ------------------------------------------------------------------ *)
(* Multiple embed candidates                                           *)
(* ------------------------------------------------------------------ *)
\* the first candidate, in document order, whose resolution succeeds
RECURSIVE FirstResolving(_)
FirstResolving(links) ==
  IF links = <<>> THEN NULL
  ELSE IF ResolveOutcome(Head(links)) # NULL THEN Head(links)
  ELSE FirstResolving(Tail(links))

\* C22: for an item with several embed candidates the first successful
\* non-null result wins: if at least one candidate resolves to a stream, the
\* item yields an entry whose streamUrl is the result of the first candidate,
\* in document order, that resolved.
C22_FirstSuccessfulWins ==
  (callPc = "selected" /\ FirstResolving(candidates) # NULL)
  => /\ selected # <<>>
     /\ selected[1].streamUrl = StreamOf(FirstResolving(candidates))

(* ------------------------------------------------------------------ *)
(* The retrying resolver                                               *)
(* ------------------------------------------------------------------ *)
\* the attempts that ended holding a URL, and those that completed holding one
Capturing == { i \in 1..Len(attemptLog) : attemptLog[i].url # NULL }
Succeeding == { i \in Capturing : ~attemptLog[i].threw }
RetrySettled == retryPc \in {"returned", "thrown"}

\* C21 (as stated): the retrying resolver makes at most maxAttempts attempts,
\* stops at the first attempt that captured a manifest URL and returns it, and
\* after maxAttempts attempts without a capture returns null rather than
\* raising.
C21_StopsAtFirstCapture ==
  /\ Len(attemptLog) <= maxAttempts
  /\ RetrySettled =>
       IF Capturing = {}
         THEN retryPc = "returned" /\ retryResult = NULL
         ELSE /\ retryPc = "returned"
              /\ \A i \in Capturing : i = Len(attemptLog)
              /\ retryResult = attemptLog[Len(attemptLog)].url

\* C21 (amended): at most maxAttempts attempts are made; the call stops at
\* the first attempt that runs to the end of its try block holding a URL and
\* returns that URL, an attempt whose navigation or click throws counting as
\* failed whatever it captured; after maxAttempts attempts with no such
\* success it returns null; and it raises only when the session is unusable.
C21_RetryContract ==
  /\ attempt <= maxAttempts
  /\ Len(attemptLog) <= maxAttempts
  /\ (retryPc = "returned" /\ retryResult # NULL) =>
       /\ Succeeding = {Len(attemptLog)}
       /\ retryResult = attemptLog[Len(attemptLog)].url
  /\ (retryPc = "returned" /\ retryResult = NULL) =>
       /\ Len(attemptLog) = maxAttempts
       /\ Succeeding = {}
  /\ retryPc = "thrown" => retryBrowser = "crashed"

\* the first attempt captured a URL and failed, the second returned one
C21_Witness ==
  /\ retryPc = "returned"
  /\ retryResult # NULL
  /\ Len(attemptLog) = maxAttempts
  /\ attemptLog[1].url # NULL
  /\ attemptLog[1].threw

(* ------------------------------------------------------------------ *)
(* The exported playlist                                               *)
(* ------------------------------------------------------------------ *)
Exported == callPc \in {"exported", "exportedBoth", "parsed"}
ExportedBoth == callPc \in {"exportedBoth", "parsed"}

\* the entries of a list that belong to a group, and the groups of a list
InGroup(its, g) == SelectSeq(its, LAMBDA item : item.group = g)
Groups(its) == { its[i].group : i \in 1..Len(its) }
\* two lists that agree on the relative order of the entries of every group
SameGroupOrder(a, b) == \A g \in Groups(a) \cup Groups(b) : InGroup(a, g) = InGroup(b, g)

\* the order required of the groups: the trending group first, the others by name
Precedes(a, b) ==
  a # b /\ (a = Trending \/ (b # Trending /\ CollationIndex(a) < CollationIndex(b)))
ExpectedGroups(its) ==
  CHOOSE s \in [1..Cardinality(Groups(its)) -> Groups(its)] :
    \A i, j \in 1..Cardinality(Groups(its)) : i < j => Precedes(s[i], s[j])
\* the entries in the order required of the text
ExpectedOrder(its) ==
  Flatten([i \in 1..Cardinality(Groups(its)) |-> InGroup(its, ExpectedGroups(its)[i])])

\* the banner lines of a text, in order, and what they state
BannerLines(lines) == SelectSeq(lines, IsBanner)
BannerGroup(line) == IF line[2] = " (" THEN "" ELSE line[2]
BannerCount(line) == line[Len(line) - 1]
BannerGroups(lines) ==
  [i \in 1..Len(BannerLines(lines)) |-> BannerGroup(BannerLines(lines)[i])]

\* what reading back an entry yields when its values are recovered exactly,
\* and what the #EXTINF line carries after its attribute list
ExactParse(item) ==
  [title |-> Text(item.title), group |-> item.group, streamUrl |-> Text(item.streamUrl)]
WrittenTitle(item) ==
  Text(IF item.title = "" THEN "Unknown Title" ELSE item.title)
    \o (IF item.description = "" THEN <<>> ELSE << " - ", item.description >>)
WrittenParse(item) ==
  [title |-> WrittenTitle(item), group |-> item.group, streamUrl |-> Text(item.streamUrl)]

C26_RoundTripExact ==
  callPc = "parsed" =>
    parsed = [i \in 1..Len(exportItems) |-> ExactParse(ExpectedOrder(exportItems)[i])]

\* C26 (amended): reading the text back recovers, for every entry and in
\* order, exactly its group and its stream URL; the text after the attribute
\* list is the title, or 'Unknown Title' for an empty title, followed by
\* ' - ' and the description when there is one, so the title is recovered
\* exactly when it is not empty and the entry has no description.
C26_RoundTripAsWritten ==
  callPc = "parsed" =>
    /\ parsed = [i \in 1..Len(exportItems) |-> WrittenParse(ExpectedOrder(exportItems)[i])]
    /\ \A i \in 1..Len(exportItems) :
         LET item == ExpectedOrder(exportItems)[i]
         IN parsed[i].title = Text(item.title)
              <=> (item.title # "" /\ item.description = "")

C26_Witness ==
  /\ callPc = "parsed"
  /\ \E i, j, k \in 1..Len(parsed) :
       /\ ExpectedOrder(exportItems)[i].title = ""
       /\ parsed[i].title = << "Unknown Title" >>
       /\ ExpectedOrder(exportItems)[j].description # ""
       /\ parsed[j].group = "Horror"
       /\ ExpectedOrder(exportItems)[k].group = ""
       /\ parsed[k] = ExactParse(ExpectedOrder(exportItems)[k])

\* C27: in the text the group "Trending Movies", when present, is the first
\* group and the other groups follow in the order of their names, whatever
\* the order in which the entries were accumulated.
C27_TrendingFirstThenByName ==
  /\ Exported => BannerGroups(content) = ExpectedGroups(exportItems)
  /\ ExportedBoth => BannerGroups(arrivalContent) = ExpectedGroups(exportItems)

C27_Witness ==
  /\ ExportedBoth
  /\ ObjectKeys(exportItems) = << "Horror", Trending, "Action" >>
  /\ BannerGroups(content) = << Trending, "Action", "Horror" >>
  /\ ObjectKeys(arrival) # ObjectKeys(exportItems)

\* C28: within each group of the text, entries appear in the relative order
\* in which they were appended to the accumulated list.
C28_InsertionOrderWithinGroup ==
  Exported =>
    \A g \in Groups(exportItems) :
      SelectSeq(ParseM3U(content), LAMBDA p : p.group = g)
        = [i \in 1..Len(InGroup(exportItems, g)) |-> WrittenParse(InGroup(exportItems, g)[i])]

\* two different entries of one group, appended with an entry of another
\* group between them
C28_Witness ==
  /\ Exported
  /\ Len(exportItems) > 2
  /\ exportItems[1].group = "Horror"
  /\ exportItems[1].title = ""
  /\ exportItems[2].group = Trending
  /\ exportItems[3].group = "Horror"
  /\ exportItems[3].title # ""
  /\ SelectSeq(ParseM3U(content), LAMBDA p : p.group = "Horror")
       = << WrittenParse(exportItems[1]), WrittenParse(exportItems[3]) >>

\* how often an entry is in a list, and how often it is written in a text
TimesIn(its, item) == Cardinality({ i \in 1..Len(its) : its[i] = item })
TimesWritten(lines, item) ==
  Cardinality({ i \in ExtinfLines(lines) :
                  /\ lines[i] = generateExtinfLine(item)
                  /\ i < Len(lines)
                  /\ lines[i + 1] = Text(item.streamUrl) })

\* C29: when the accumulated list holds several identical records, the text
\* holds that record only once.
C29_Deduplicates ==
  Exported => \A item \in Range(exportItems) : TimesWritten(content, item) = 1

\* the banner an #EXTINF line stands under: the last banner line before it
BannerOf(lines, i) ==
  LET before == { b \in 1..(i - 1) : IsBanner(lines[b]) }
  IN IF before = {} THEN 0 ELSE CHOOSE b \in before : \A c \in before : c <= b

\* C30: in the text every group's banner precedes that group's entries and
\* states a count equal to the number of entries written for the group, and
\* every accumulated entry is written exactly once.
C30_BannerCounts ==
  Exported =>
    /\ \A i \in ExtinfLines(content) :
         /\ BannerOf(content, i) > 0
         /\ BannerGroup(content[BannerOf(content, i)]) = GroupTitle(content[i])
    /\ \A b \in 1..Len(content) :
         IsBanner(content[b]) =>
           BannerCount(content[b])
             = ToString(Cardinality({ i \in ExtinfLines(content) : BannerOf(content, i) = b }))
    /\ Cardinality(ExtinfLines(content)) = Len(exportItems)
    /\ \A item \in Range(exportItems) :
         TimesWritten(content, item) = TimesIn(exportItems, item)

C30_Witness ==
  /\ Exported
  /\ Len(BannerLines(content)) > 1
  /\ InGroup(exportItems, Trending) # <<>>
  /\ BannerCount(BannerLines(content)[1]) = ToString(Len(InGroup(exportItems, Trending)))
  /\ Len(InGroup(exportItems, "Horror")) > 1
  /\ \E item \in Range(exportItems) : TimesIn(exportItems, item) > 1

(* ------------------------------------------------------------------ *)
(* Discovery                                                           *)
(* ------------------------------------------------------------------ *)
\* the nodes that extract with a parseable identifier
Valid(nodes) == Cardinality({ i \in DOMAIN nodes : nodes[i] # NoId })

\* C31: a discovery call that met no failure (the session stayed usable and
\* the page's item nodes, all a.movieCard, were found) returns min(limit, V)
\* items, V being the number of nodes with a parseable identifier.
C31_ReturnsMinLimitValid ==
  (/\ discoverPc = "returned"
   /\ discoverBrowser = "open"
   /\ markup = cardSelectors[1]
   /\ cards # <<>>)
  => Len(discoverResult) = Min(limit, Valid(cardNodes))

\* C32: discovery never raises to its caller.
C32_NeverRaises == discoverPc # "thrown"

\* C33: no two items returned by one discovery call have the same id.
C33_UniqueIds ==
  discoverPc = "returned"
  => \A i, j \in DOMAIN discoverResult :
       i # j => discoverResult[i] # discoverResult[j]

\* C37: the nodes found by the fallback chain of locator strategies are the
\* nodes discovery extracts from: on a usable session, the step after the
\* scroll leaves the matched nodes as they are.
C37_ProceedsWithMatched ==
  [][(discoverPc = "requery" /\ discoverBrowser = "open" /\ discoverPc' # "requery")
     => cards' = cards]_vars

(* ------------------------------------------------------------------ *)
(* VidFast resolver                                                    *)
(* ------------------------------------------------------------------ *)
\* C39: when the wait for the manifest request begins a playback action has
\* been simulated: a detected play control was clicked or, when none of the
\* play-control selectors is found, the coordinate (400, 300) was clicked.
C39_PlaybackAlwaysSimulated ==
  vidfastPc = "manifestWait"
  => /\ clicks # <<>>
     /\ playControls = {} => MouseClick \in Range(clicks)

(* ------------------------------------------------------------------ *)
(* Metadata enrichment                                                 *)
(* ------------------------------------------------------------------ *)
\* the stream processMovie resolved for the item, NULL when there is none
ResolvedStream ==
  IF NoServer(find(candidates)) THEN NULL ELSE ResolveOutcome(find(candidates))

\* C34: a metadata lookup without result is not fatal to the item: an item
\* with a resolved stream yields an entry with that stream, the raw item's
\* title and poster, and no rating in its description.
C34_LookupFailureNotFatal ==
  (callPc = "selected" /\ ~NoStream(ResolvedStream) /\ tmdbResult = NULL)
  => /\ selected # <<>>
     /\ selected[1].streamUrl = ResolvedStream
     /\ selected[1].title = RawTitle(selected[1].src)
     /\ selected[1].logo = RawPoster(selected[1].src)
     /\ TmdbRating(selected[1].src) \notin Range(selected[1].description)

C34_Witness ==
  /\ callPc = "selected"
  /\ ~NoStream(ResolvedStream)
  /\ tmdbResult = NULL
  /\ selected # <<>>
  /\ selected[1].description = RawQuality(selected[1].src)

(* ------------------------------------------------------------------ *)
(* Chunked genre processing                                            *)
(* ------------------------------------------------------------------ *)
\* processGenre(g) has been called and has not settled
InFlight(g) == pc[g] \notin {"idle", "done", "rejected"}
GenresInFlight == { g \in Range(genres) : InFlight(g) }

\* C35: the chunks partition the genre list in order; at most
\* PARALLEL_GENRES genre categories are in flight at a time; no category of
\* chunk k+1 starts before every category of chunk k has settled; every genre
\* is started once, from idle, stays settled once settled, and has settled
\* when processAllGenres returns.
C35_ChunkInvariant ==
  /\ Flatten([k \in 1..NumChunks |-> ChunkOf(k)]) = genres
  /\ Cardinality(GenresInFlight) <= PARALLEL_GENRES
  /\ \A k \in 1..(NumChunks - 1) :
       (\E g \in ChunkSet(k + 1) : pc[g] # "idle")
       => \A h \in ChunkSet(k) : Settled(pc[h])
  /\ agPc = "done" => \A g \in Range(genres) : Settled(pc[g])
C35_StartedOnce ==
  \A g \in Range(genres) :
    /\ (pc'[g] = "launch" /\ pc[g] # "launch") => pc[g] = "idle"
    /\ Settled(pc[g]) => pc'[g] = pc[g]
C35_ChunksInOrder == []C35_ChunkInvariant /\ [][C35_StartedOnce]_vars

\* the second chunk is running after a first chunk of PARALLEL_GENRES genres
C35_Witness ==
  /\ Len(genres) > PARALLEL_GENRES
  /\ Cardinality(ChunkSet(1)) = PARALLEL_GENRES
  /\ \A h \in ChunkSet(1) : Settled(pc[h])
  /\ InFlight(genres[PARALLEL_GENRES + 1])

(* ------------------------------------------------------------------ *)
(* Accumulation order                                                  *)
(* ------------------------------------------------------------------ *)
\* the entries of the fulfilled genre categories, in genre-list order
GenreEntries ==
  Flatten([i \in 1..Len(genres) |->
             IF pc[genres[i]] = "done" THEN items[genres[i]] ELSE <<>>])

\* C36: whatever the interleaving of the concurrent categories, the list
\* handed to the export is the trending entries followed by each genre's
\* entries in genre-list order, and the entries of a category are in the
\* discovery order of their items.
C36_ListInCategoryOrder ==
  file # <<>>
  => /\ file[1] = items[Trending] \o GenreEntries
     /\ \A j, k \in 1..Len(file[1]) :
          (j < k /\ file[1][j].group = file[1][k].group)
          => file[1][j].src < file[1][k].src

\* the trending category and two genres each contributed an entry
C36_Witness ==
  /\ file # <<>>
  /\ Len(genres) >= 2
  /\ \E i, j, k \in 1..Len(file[1]) :
       /\ i < j /\ j < k
       /\ file[1][i].group = Trending
       /\ file[1][j].group = genres[1]
       /\ file[1][k].group = genres[2]

(* ------------------------------------------------------------------ *)
(* Session lifecycle                                                   *)
(* ------------------------------------------------------------------ *)
\* the sessions category c has launched
Sessions(c) == { sess[c][s] : s \in 1..Len(sess[c]) }

\* C38 (as claimed): when a category's processing has returned, every session
\* it launched is closed.
C38_AllSessionsClosed ==
  \A c \in Cats : Settled(pc[c]) => Sessions(c) \subseteq {"closed"}

\* C38 (amended): when a category's processing has returned, close() has
\* settled on every session it launched: each is closed, or its close() threw.
C38_AllSessionsCloseCalled ==
  \A c \in Cats : Settled(pc[c]) => Sessions(c) \subseteq {"closed", "closeFailed"}

\* a genre returned after a recycling whose close() of the old session threw
C38_Witness ==
  \E g \in Range(genres) :
    /\ pc[g] = "done"
    /\ Len(sess[g]) >= 2
    /\ sess[g][1] = "closeFailed"
    /\ sess[g][Len(sess[g])] = "closed"

====
